---- MODULE Spec2Model ----
(***************************************************************************)
(* Model of plex-nfo-updater.py: title scoring and resolution, the diff / *)
(* update planner and executor, the artwork matcher and the process_data  *)
(* loop.  Strings are sequences of one-character strings, so that strip,  *)
(* case folding, accent removal, splitting and substring tests are        *)
(* computed the way the Python code computes them.                        *)
(***************************************************************************)
EXTENDS Integers, Sequences, FiniteSets, TLC

VARIABLES
    cfg,              \* the run configuration globals (lines 106-113) and automatic_mode
    plex,             \* the catalog service: its library and what it currently holds
    STATS,            \* the run-wide outcome aggregator (lines 164-169)
    requests,         \* every mutating request sent to the catalog service, in order
    pc,               \* position of the program
    query,            \* arguments of the current resolve_plex_item call
    results,          \* the ScoreResult of the last search_plex_for_media_by_title
    plex_item,        \* ratingKey of the item the last resolution returned (0: None)
    prompt,           \* the list the last resolution showed the user, and the answer
    env,              \* the outside world of one run: sidecar batches, prompts, faults
    cur,              \* loop position of process_data and its parent_plex_item
    last              \* what the last update_plex_item_fields call was given and did

vars == <<cfg, plex, STATS, requests, pc, query, results, plex_item, prompt, env, cur, last>>

(***************************************************************************)
(* Bounds of the model.                                                    *)
(***************************************************************************)
MaxCands == 2
MaxTags == 6
MaxFiles == 2

(***************************************************************************)
(* Characters and strings.                                                 *)
(***************************************************************************)
UPPER == <<"A","B","C","D","E","F","G","H","I","J","K","L","M",
           "N","O","P","Q","R","S","T","U","V","W","X","Y","Z">>
LOWER == <<"a","b","c","d","e","f","g","h","i","j","k","l","m",
           "n","o","p","q","r","s","t","u","v","w","x","y","z">>
DIGITS == <<"0","1","2","3","4","5","6","7","8","9">>

\* "e^" stands for the precomposed letter e-acute, "E^" for E-acute and "^"
\* for the combining acute accent they decompose to under NFKD.
IsSpace(c) == c = " "
IsDigit(c) == \E i \in 1..10 : DIGITS[i] = c
DigitVal(c) == (CHOOSE i \in 1..10 : DIGITS[i] = c) - 1
IsCombining(c) == c = "^"

\* str.lower() on one character
LowerChar(c) ==
    IF c = "E^" THEN "e^"
    ELSE IF \E i \in 1..26 : UPPER[i] = c
         THEN LOWER[CHOOSE i \in 1..26 : UPPER[i] = c]
         ELSE c

Lower(s) == [i \in 1..Len(s) |-> LowerChar(s[i])]

\* unicodedata.normalize("NFKD", c) for one character
Decompose(c) ==
    IF c = "e^" THEN <<"e", "^">>
    ELSE IF c = "E^" THEN <<"E", "^">>
    ELSE <<c>>

RECURSIVE NFKD(_)
NFKD(s) == IF s = <<>> THEN <<>> ELSE Decompose(Head(s)) \o NFKD(Tail(s))

Min(S) == CHOOSE m \in S : \A n \in S : m <= n
Max(S) == CHOOSE m \in S : \A n \in S : m >= n

\* str.strip()
Strip(s) ==
    LET keep == {i \in 1..Len(s) : ~IsSpace(s[i])}
    IN  IF keep = {} THEN <<>> ELSE SubSeq(s, Min(keep), Max(keep))

\* a in b, for strings
IsSubstr(a, b) ==
    \E i \in 0..(Len(b) - Len(a)) : SubSeq(b, i + 1, i + Len(a)) = a

\* b.startswith(a)
StartsWith(b, a) == Len(a) <= Len(b) /\ SubSeq(b, 1, Len(a)) = a

\* str(n) for a small non-negative integer
RECURSIVE Str(_)
Str(n) == IF n < 10 THEN <<DIGITS[n + 1]>> ELSE Str(n \div 10) \o <<DIGITS[(n % 10) + 1]>>

\* _normalize of search_plex_for_media_by_title: strip, NFKD, drop combining
\* marks, casefold
_normalize(s) == Lower(SelectSeq(NFKD(Strip(s)), LAMBDA c : ~IsCombining(c)))

(***************************************************************************)
(* Trailing year extraction (lines 496-502).                               *)
(***************************************************************************)
NoYear == -1

YearOpeners == {"-", "(", "[", "{"}
YearClosers == {")", "]", "}"}

\* first position >= i of s that holds no whitespace (Len(s)+1 when none)
SkipSpaces(s, i) == Min({j \in i..Len(s) : ~IsSpace(s[j])} \cup {Len(s) + 1})

\* position of the 4 digits when s[i..] matches \s*[\-\(\[\{]\s*\d{4}[\)\]\}]?$ , else 0
YearDigitsAt(s, i) ==
    LET j == SkipSpaces(s, i)
        k == SkipSpaces(s, j + 1)
    IN  IF /\ j <= Len(s)
           /\ s[j] \in YearOpeners
           /\ k + 3 <= Len(s)
           /\ \A d \in 0..3 : IsDigit(s[k + d])
           /\ \/ k + 3 = Len(s)
              \/ k + 4 = Len(s) /\ s[k + 4] \in YearClosers
        THEN k ELSE 0

\* re.search: the leftmost start of a match (0 when there is none)
YearMatchStart(s) ==
    LET starts == {i \in 1..Len(s) : YearDigitsAt(s, i) > 0}
    IN  IF starts = {} THEN 0 ELSE Min(starts)

\* the (title, year) pair the search continues with
extract_trailing_year(raw) ==
    LET i == YearMatchStart(raw)
        k == YearDigitsAt(raw, i)
    IN  IF i = 0 THEN [title |-> raw, year |-> NoYear]
        ELSE [title |-> Strip(SubSeq(raw, 1, i - 1)),
              year  |-> DigitVal(raw[k]) * 1000 + DigitVal(raw[k + 1]) * 100
                        + DigitVal(raw[k + 2]) * 10 + DigitVal(raw[k + 3])]

\* Python truthiness of an optional integer
Truthy(n) == n # NoYear /\ n # 0

(***************************************************************************)
(* Catalog items.  An item is a record; 0 stands for a missing (None)      *)
(* rating key, <<>> for a missing string, "" for a missing type.           *)
(***************************************************************************)
HasSeasons(item)  == item.type = "show"
HasEpisodes(item) == item.type \in {"show", "season"}

\* parent.seasons(): the seasons of a show, in library order
SeasonsOf(P, parent) ==
    SelectSeq(P.order, LAMBDA rk : P.items[rk].type = "season"
                                   /\ P.items[rk].parentRatingKey = parent)

\* parent.episodes(): the episodes below a show or a season, in library order
EpisodesOf(P, parent) ==
    SelectSeq(P.order, LAMBDA rk : P.items[rk].type = "episode"
                                   /\ \/ P.items[rk].parentRatingKey = parent
                                      \/ P.items[rk].grandparentRatingKey = parent)

\* plex.search(title): the hits of the service, in the order it returns them
PlexSearch(P, title) == P.hits

(***************************************************************************)
(* search_plex_for_media_by_title (lines 472-716).                         *)
(***************************************************************************)
noise_keywords ==
    { <<"s","a","m","p","l","e">>, <<"t","r","a","i","l","e","r">>,
      <<"t","e","a","s","e","r">>, <<"p","r","o","m","o">>,
      <<"d","e","l","e","t","e","d"," ","s","c","e","n","e">>,
      <<"b","e","h","i","n","d"," ","t","h","e"," ","s","c","e","n","e","s">> }

EmptyResult ==
    [candidates |-> <<>>, scores |-> <<>>, best_match |-> 0, best_score |-> 0,
     is_confident |-> FALSE, nb_excellent_match |-> 0, self_match |-> FALSE]

_is_child_of_parent(candidate, parent_obj) ==
    \/ candidate.parentRatingKey # 0
       /\ candidate.parentRatingKey = parent_obj.ratingKey
    \/ candidate.grandparentRatingKey # 0
       /\ candidate.grandparentRatingKey = parent_obj.ratingKey
    \/ candidate.key # <<>> /\ IsSubstr(Str(parent_obj.ratingKey), candidate.key)
    \/ candidate.parentTitle # <<>>
       /\ _normalize(candidate.parentTitle) = _normalize(parent_obj.title)

\* TitleScore without the prefix bonus of lines 657-658
TitleScore_NoPrefixBonus(cand, norm_search, media_title_raw, year) ==
    IF _normalize(cand.title) = norm_search
    THEN IF Truthy(year) /\ cand.year = year THEN 100 ELSE 99
    ELSE IF IsSubstr(norm_search, _normalize(cand.title)) THEN 20 ELSE 0

\* TitleScore giving 100 to every exact title match, whatever the year
TitleScore_IgnoreYear(cand, norm_search, media_title_raw, year) ==
    IF _normalize(cand.title) = norm_search THEN 100
    ELSE IF IsSubstr(norm_search, _normalize(cand.title))
         THEN IF StartsWith(Lower(cand.title), Lower(media_title_raw)) THEN 25 ELSE 20
         ELSE 0

\* lines 645-652 and 654-658: the score from the title and year alone
TitleScore(cand, norm_search, media_title_raw, year) ==
    IF _normalize(cand.title) = norm_search
    THEN IF Truthy(year) /\ cand.year = year THEN 100 ELSE 99
    ELSE IF IsSubstr(norm_search, _normalize(cand.title))
         THEN IF StartsWith(Lower(cand.title), Lower(media_title_raw)) THEN 25 ELSE 20
         ELSE 0

\* lines 660-662
NoisePenalty(cand, score) ==
    IF \E k \in noise_keywords : IsSubstr(k, Lower(cand.title))
    THEN Max({score - 50, 1}) ELSE score

\* a missing (None) item
NoneItem == [ratingKey |-> 0]
IsNone(item) == item.ratingKey = 0

\* ParentBonus given to every candidate once a parent is supplied
ParentBonus_AnyCandidate(cand, parent, score) ==
    IF ~IsNone(parent) THEN score + 30 ELSE score

\* lines 664-665
ParentBonus(cand, parent, score) ==
    IF ~IsNone(parent) /\ _is_child_of_parent(cand, parent)
    THEN score + 30 ELSE score

\* the score appended to scored for one candidate (lines 645-668)
ScoreCandidate(P, cand, norm_search, media_title_raw, year, parent) ==
    Max({0, ParentBonus(cand, parent,
                NoisePenalty(cand, TitleScore(cand, norm_search, media_title_raw, year)))})

\* lines 636-638: the media type filter
KeptByType(cand, media_type) ==
    ~(media_type # "" /\ cand.type # "" /\ media_type # cand.type)

\* lines 584-607: candidates enumerated below the parent
ScopedCandidates(P, media_type, parent) ==
    IF IsNone(parent) \/ P.children_error THEN <<>>
    ELSE IF media_type = "season" /\ HasSeasons(parent)
         THEN SeasonsOf(P, parent.ratingKey)
    ELSE IF media_type = "episode" /\ HasEpisodes(parent)
         THEN EpisodesOf(P, parent.ratingKey)
    ELSE <<>>

\* SortScored leaving the scored list in the order of discovery
SortScored_Unsorted(scored) ==
    scored

\* line 687: sort by descending score, then by index of discovery
SortScored(scored) ==
    LET n == Len(scored)
        Before(a, b) == scored[a].score > scored[b].score
                        \/ (scored[a].score = scored[b].score /\ scored[a].idx < scored[b].idx)
        Rank(a) == 1 + Cardinality({b \in 1..n : Before(b, a)})
    IN  [p \in 1..n |-> scored[CHOOSE a \in 1..n : Rank(a) = p]]

\* lines 634-668: the scored list, in discovery order, of the kept candidates
Scored(P, candidates_to_score, media_type, norm_search, media_title_raw, year, parent) ==
    LET entries == [i \in 1..Len(candidates_to_score) |->
                      [idx |-> i, cand |-> candidates_to_score[i]]]
        kept == SelectSeq(entries, LAMBDA e : KeptByType(P.items[e.cand], media_type))
    IN  [i \in 1..Len(kept) |->
           [score |-> ScoreCandidate(P, P.items[kept[i].cand], norm_search,
                                     media_title_raw, year, parent),
            idx |-> kept[i].idx, cand |-> kept[i].cand]]

\* ScoreResult counting only the scores of 100 and more as excellent
ScoreResult_ExcellentFrom100(sorted) ==
    IF sorted = <<>> THEN EmptyResult
    ELSE [candidates |-> [i \in 1..Len(sorted) |-> sorted[i].cand],
          scores |-> [i \in 1..Len(sorted) |-> sorted[i].score],
          best_match |-> sorted[1].cand,
          best_score |-> sorted[1].score,
          is_confident |-> sorted[1].score >= 99,
          nb_excellent_match |-> Cardinality({i \in 1..Len(sorted) : sorted[i].score >= 100}),
          self_match |-> FALSE]

\* lines 674-716: the dictionary returned for a sorted scored list
ScoreResult(sorted) ==
    IF sorted = <<>> THEN EmptyResult
    ELSE [candidates |-> [i \in 1..Len(sorted) |-> sorted[i].cand],
          scores |-> [i \in 1..Len(sorted) |-> sorted[i].score],
          best_match |-> sorted[1].cand,
          best_score |-> sorted[1].score,
          is_confident |-> sorted[1].score >= 99,
          nb_excellent_match |-> Cardinality({i \in 1..Len(sorted) : sorted[i].score >= 99}),
          self_match |-> FALSE]

\* lines 562-716, for the title and year left by the year extraction.
\* (A value is computed once by binding it in a one-element set.)
SearchFor(P, media_title_raw, year, norm_search, media_type, parent) ==
    IF /\ ~IsNone(parent)
       /\ _normalize(parent.title) = norm_search
       /\ (year = NoYear \/ parent.year = year)
    THEN [candidates |-> <<parent.ratingKey>>, scores |-> <<100>>,
          best_match |-> parent.ratingKey, best_score |-> 100, is_confident |-> TRUE,
          nb_excellent_match |-> 1, self_match |-> TRUE]
    ELSE CHOOSE r \in
           { IF scoped = <<>> /\ P.search_error THEN EmptyResult
             ELSE CHOOSE t \in
                    { ScoreResult(sorted) :
                        sorted \in { SortScored(scored) :
                           scored \in { Scored(P,
                               IF scoped # <<>> THEN scoped ELSE PlexSearch(P, media_title_raw),
                               media_type, norm_search, media_title_raw, year, parent) } } } : TRUE
             : scoped \in {ScopedCandidates(P, media_type, parent)} } : TRUE

search_plex_for_media_by_title(P, media_title, media_type, parent) ==
    CHOOSE r \in
      { IF stripped = <<>> THEN EmptyResult
        ELSE CHOOSE t \in
               { SearchFor(P, ty.title, ty.year, norm_search, media_type, parent) :
                   <<ty, norm_search>> \in
                       { <<e, _normalize(e.title)>> : e \in {extract_trailing_year(stripped)} } }
               : TRUE
        : stripped \in {Strip(media_title)} } : TRUE

(***************************************************************************)
(* choose_plex_item (lines 720-751) and prompt_choice (lines 345-367).     *)
(* answer is what the user types at the prompt: 0 for 'q', else a number.  *)
(* The result is the chosen rating key, 0 for None, Quit for sys.exit.     *)
(* The entry after the last candidate is "Skip".                           *)
(***************************************************************************)
Quit == -1

\* choose_plex_item reading the Skip entry as the first candidate
choose_plex_item_SkipPicksFirst(candidates, answer) ==
    IF candidates = <<>> THEN 0
    ELSE IF Len(candidates) = 1 THEN candidates[1]
    ELSE IF answer = 0 THEN Quit
    ELSE IF answer > Len(candidates) THEN candidates[1]
    ELSE candidates[answer]

choose_plex_item(candidates, answer) ==
    IF candidates = <<>> THEN 0
    ELSE IF Len(candidates) = 1 THEN candidates[1]
    ELSE IF answer = 0 THEN Quit
    ELSE IF answer > Len(candidates) THEN 0
    ELSE candidates[answer]

\* whether choose_plex_item shows a prompt for this list
Prompts(candidates) == Len(candidates) > 1

(***************************************************************************)
(* resolve_plex_item (lines 397-467).  The result carries the returned     *)
(* item (0: None), the records appended to STATS["skipped"], the list      *)
(* presented to the user (<<>> when no prompt is reached) and how the call *)
(* ended: "return", "exit" (the user quit) or "TypeError" (line 449).      *)
(***************************************************************************)
Outcome(title, file, why, what) ==
    [title |-> title, file |-> file, why |-> why, what |-> what]

Skip(who, why) == Outcome(who, 0, why, "")

Resolved(item, skipped, shown, res) ==
    [plex_item |-> item, skipped |-> skipped, shown |-> shown, end |-> "return",
     results |-> res]

\* lines 445-447: the user chooses among cands
Chosen(res, cands, c, media_title, why) ==
    IF c = Quit
    THEN [plex_item |-> 0, skipped |-> <<>>, shown |-> cands, end |-> "exit",
          results |-> res]
    ELSE Resolved(c, IF c = 0 THEN <<Skip(media_title, why)>> ELSE <<>>,
                  IF Prompts(cands) THEN cands ELSE <<>>, res)

\* ResolveFrom showing the user the whole ranked list when several candidates
\* are excellent
ResolveFrom_PromptAll(res, media_title, automatic_mode, answer) ==
    IF res.candidates = <<>>
    THEN Resolved(0, <<Skip(media_title, "No candidate found.")>>, <<>>, res)
    ELSE IF automatic_mode
    THEN IF res.is_confident /\ res.nb_excellent_match = 1
         THEN Resolved(res.best_match, <<>>, <<>>, res)
         ELSE Resolved(0, <<>>, <<>>, res)
    ELSE IF res.is_confident /\ res.nb_excellent_match = 1
         THEN Resolved(res.best_match, <<>>, <<>>, res)
    ELSE IF res.nb_excellent_match > 1
         THEN CHOOSE r \in
                { Chosen(res, cands, choose_plex_item(cands, answer), media_title,
                         "User did not select any match.") :
                    cands \in {res.candidates} } : TRUE
    ELSE [plex_item |-> 0, skipped |-> <<>>, shown |-> <<>>, end |-> "TypeError",
          results |-> res]

\* ResolveFrom taking the best match of any confident result in automatic mode
ResolveFrom_AutoGuess(res, media_title, automatic_mode, answer) ==
    IF res.candidates = <<>>
    THEN Resolved(0, <<Skip(media_title, "No candidate found.")>>, <<>>, res)
    ELSE IF automatic_mode
    THEN IF res.is_confident
         THEN Resolved(res.best_match, <<>>, <<>>, res)
         ELSE Resolved(0, <<>>, <<>>, res)
    ELSE IF res.is_confident /\ res.nb_excellent_match = 1
         THEN Resolved(res.best_match, <<>>, <<>>, res)
    ELSE IF res.nb_excellent_match > 1
         THEN CHOOSE r \in
                { Chosen(res, cands, choose_plex_item(cands, answer), media_title,
                         "User did not select any match.") :
                    cands \in {SubSeq(res.candidates, 1, res.nb_excellent_match)} } : TRUE
    ELSE [plex_item |-> 0, skipped |-> <<>>, shown |-> <<>>, end |-> "TypeError",
          results |-> res]

\* lines 411-467, for the ScoreResult res
ResolveFrom(res, media_title, automatic_mode, answer) ==
    IF res.candidates = <<>>
    THEN Resolved(0, <<Skip(media_title, "No candidate found.")>>, <<>>, res)
    ELSE IF automatic_mode
    THEN IF res.is_confident /\ res.nb_excellent_match = 1
         THEN Resolved(res.best_match, <<>>, <<>>, res)
         ELSE Resolved(0, <<>>, <<>>, res)
    ELSE IF res.is_confident /\ res.nb_excellent_match = 1
         THEN Resolved(res.best_match, <<>>, <<>>, res)
    ELSE IF res.nb_excellent_match > 1
         THEN CHOOSE r \in
                { Chosen(res, cands, choose_plex_item(cands, answer), media_title,
                         "User did not select any match.") :
                    cands \in {SubSeq(res.candidates, 1, res.nb_excellent_match)} } : TRUE
    \* line 449 takes len() of the integer nb_excellent_match
    ELSE [plex_item |-> 0, skipped |-> <<>>, shown |-> <<>>, end |-> "TypeError",
          results |-> res]

resolve_plex_item(P, media_title, media_type, automatic_mode, parent, answer) ==
    CHOOSE r \in
      { ResolveFrom(res, media_title, automatic_mode, answer) :
          res \in {search_plex_for_media_by_title(P, media_title, media_type, parent)} } : TRUE

(***************************************************************************)
(* The inputs of the model: titles, catalog items, configurations.         *)
(***************************************************************************)
T_Alien     == <<"A","l","i","e","n">>
T_Alien1979 == <<"A","l","i","e","n"," ","(","1","9","7","9",")">>
T_Alien3    == <<"A","l","i","e","n"," ","3">>
T_ALIEN     == <<" ","A","L","I","E^","N">>
T_Trailer   == <<"A","l","i","e","n"," ","T","r","a","i","l","e","r">>
T_Trailer1979 == <<"A","l","i","e","n"," ","T","r","a","i","l","e","r"," ","(","1","9","7","9",")">>
T_Dune      == <<"D","u","n","e">>
T_Season1   == <<"S","e","a","s","o","n"," ","1">>
T_Year      == <<"(","1","9","7","9",")">>
T_Blank     == <<" ">>

\* the key path of an item; the letters of its /library/metadata/ prefix
\* never match the digits of a rating key
KeyOf(rk) == <<"/">> \o Str(rk)

SearchItem(rk, title, year, type, prk, gprk, ptitle, index) ==
    [ratingKey |-> rk, title |-> title, year |-> year, type |-> type,
     parentRatingKey |-> prk, grandparentRatingKey |-> gprk, key |-> KeyOf(rk),
     parentTitle |-> ptitle, index |-> index]

SearchItems ==
    (1  :> SearchItem(1, T_Alien, 1979, "movie", 0, 0, <<>>, 0)) @@
    (2  :> SearchItem(2, T_Alien, 1986, "movie", 0, 0, <<>>, 0)) @@
    (3  :> SearchItem(3, T_ALIEN, NoYear, "movie", 0, 0, <<>>, 0)) @@
    (4  :> SearchItem(4, T_Trailer, NoYear, "movie", 0, 0, <<>>, 0)) @@
    (5  :> SearchItem(5, T_Dune, 2000, "show", 0, 0, <<>>, 0)) @@
    (6  :> SearchItem(6, T_Season1, NoYear, "season", 5, 0, T_Dune, 1)) @@
    (7  :> SearchItem(7, T_Alien, NoYear, "episode", 6, 5, T_Season1, 1)) @@
    \* an episode of another show (20, season 21)
    (8  :> SearchItem(8, T_Alien, NoYear, "episode", 21, 20, T_Season1, 1)) @@
    (15 :> SearchItem(15, T_Alien3, 1992, "movie", 0, 0, <<>>, 0))

HitPool == {1, 2, 3, 4, 7, 15}

\* answers of the search with two movies titled "Alien" and a third movie
\* that is no exact match, whatever MaxCands is
MixedHits == {<<15, 1, 2>>, <<1, 15, 2>>, <<2, 1, 4>>}

\* sequences without repetition of at most n elements of S
RECURSIVE SeqsUpTo(_, _)
SeqsUpTo(S, n) ==
    IF n = 0 THEN {<<>>}
    ELSE LET shorter == SeqsUpTo(S, n - 1)
         IN  shorter \cup {Append(q, x) : q \in {t \in shorter : Len(t) = n - 1},
                                          x \in S} 

NoRepeat(q) == \A i, j \in 1..Len(q) : i # j => q[i] # q[j]

SearchCatalogs ==
    { [items |-> SearchItems, order |-> <<5, 6, 7>>, hits |-> h,
       search_error |-> f = "search", children_error |-> f = "children"] :
      h \in {q \in SeqsUpTo(HitPool, MaxCands) : NoRepeat(q)} \cup MixedHits,
      f \in {"none", "search", "children"} }

SearchQueries ==
    [media_title : {T_Alien, T_Alien1979, T_Trailer, T_Trailer1979, T_Dune, T_Year, T_Blank},
     media_type : {"", "movie", "episode"},
     parent : {0, 5, 6}]

Config(auto, dry, unlock, art, always) ==
    [automatic_mode |-> auto, DRY_RUN |-> dry, ALLOW_UNLOCK |-> unlock,
     ALLOW_ART_UPDATE |-> art, ALWAYS_UPDATE_ART |-> always]

EmptyStats == [processed_nfo |-> 0, updated |-> <<>>, skipped |-> <<>>, failed |-> <<>>,
               skipped_missing_field |-> <<>>]

NoPrompt == [shown |-> <<>>, answer |-> 0]
NoEnv == <<>>
NoCur == <<>>
NoLast == <<>>

(***************************************************************************)
(* SpecSearch: one call of the scorer, or of the resolution policy, on     *)
(* every query and catalog of the input sets.                              *)
(***************************************************************************)
InitSearch ==
    /\ cfg \in {Config(a, FALSE, TRUE, TRUE, FALSE) : a \in BOOLEAN}
    /\ plex \in SearchCatalogs
    /\ query \in SearchQueries
    /\ STATS = EmptyStats
    /\ requests = <<>>
    /\ pc = "query"
    /\ results = EmptyResult
    /\ plex_item = 0
    /\ prompt = NoPrompt
    /\ env = NoEnv
    /\ cur = NoCur
    /\ last = NoLast

\* the parent_plex_item argument of the query
ParentOf(P, q) == IF q.parent = 0 THEN NoneItem ELSE P.items[q.parent]

\* search_plex_for_media_by_title called on the query
Search ==
    /\ pc = "query"
    /\ results' = search_plex_for_media_by_title(plex, query.media_title,
                                                 query.media_type, ParentOf(plex, query))
    /\ pc' = "scored"
    /\ UNCHANGED <<cfg, plex, STATS, requests, query, plex_item, prompt, env, cur, last>>

\* resolve_plex_item called on the query; the user answers a prompt, if any
Resolve ==
    /\ pc = "query"
    /\ \E answer \in 0..(MaxCands + 1) :
         \E r \in {resolve_plex_item(plex, query.media_title, query.media_type,
                                     cfg.automatic_mode, ParentOf(plex, query), answer)} :
             /\ r.shown = <<>> => answer = 0
             /\ answer <= Len(r.shown) + 1
             /\ results' = r.results
             /\ plex_item' = r.plex_item
             /\ prompt' = [shown |-> r.shown, answer |-> answer]
             /\ STATS' = [STATS EXCEPT !.skipped = @ \o r.skipped]
             /\ pc' = IF r.end = "return" THEN "resolved" ELSE r.end
    /\ UNCHANGED <<cfg, plex, requests, query, env, cur, last>>

NextSearch == Search \/ Resolve

SpecSearch == InitSearch /\ [][NextSearch]_vars

(***************************************************************************)
(* Sidecar records.  A value of nfo_data is None, a string, a dictionary   *)
(* (an element with children, of which the planner reads "tag" and "name") *)
(* or a list of these (a repeated element).  A dictionary lists its keys   *)
(* in the order of the children.                                           *)
(***************************************************************************)
VNone         == [kind |-> "none", s |-> <<>>, tag |-> <<>>, name |-> <<>>, items |-> <<>>,
                  keys |-> <<>>]
VStr(s)       == [kind |-> "str", s |-> s, tag |-> <<>>, name |-> <<>>, items |-> <<>>,
                  keys |-> <<>>]
VDict(t, n, keys) ==
    [kind |-> "dict", s |-> <<>>, tag |-> t, name |-> n, items |-> <<>>, keys |-> keys]
VList(items)  == [kind |-> "list", s |-> <<>>, tag |-> <<>>, name |-> <<>>, items |-> items,
                  keys |-> <<>>]

\* an element of the document: a leaf with its text (<<>>: no text), or a
\* node, whose children are <tag>t</tag> when t is not <<>> and then
\* <name>n</name> when n is not <<>>
Leaf(tag, text) == [tag |-> tag, node |-> FALSE, text |-> text, sub_tag |-> <<>>,
                    sub_name |-> <<>>]
Node(tag, t, n) == [tag |-> tag, node |-> TRUE, text |-> <<>>, sub_tag |-> t,
                    sub_name |-> n]

\* list(elem) of element_to_value (line 772), as the tags of the children
Children(elem) ==
    IF ~elem.node THEN <<>>
    ELSE (IF elem.sub_tag # <<>> THEN <<"tag">> ELSE <<>>)
         \o (IF elem.sub_name # <<>> THEN <<"name">> ELSE <<>>)

\* element_to_value (lines 770-791); a missing text is <<>>
element_to_value(elem) ==
    IF Children(elem) # <<>>
    THEN VDict(Strip(elem.sub_tag), Strip(elem.sub_name), Children(elem))
    ELSE IF elem.text = <<>> THEN VNone
    ELSE VStr(Strip(elem.text))

\* repr(s) of a string: single quotes, or double quotes when the string holds
\* a single quote and no double quote; the quote in use and the backslash
\* are escaped
ReprChar(c, quote) == IF c = "\\" \/ c = quote THEN <<"\\", c>> ELSE <<c>>

RECURSIVE ReprChars(_, _)
ReprChars(s, quote) ==
    IF s = <<>> THEN <<>> ELSE ReprChar(Head(s), quote) \o ReprChars(Tail(s), quote)

ReprStr(s) ==
    CHOOSE r \in
      { <<quote>> \o ReprChars(s, quote) \o <<quote>> :
        quote \in { IF (\E i \in 1..Len(s) : s[i] = "'")
                       /\ ~(\E i \in 1..Len(s) : s[i] = "\"")
                    THEN "\"" ELSE "'" } } : TRUE

\* repr(v) of a value of nfo_data, as str() of a list or dictionary writes
\* its members
RECURSIVE Repr(_)
RECURSIVE ReprItems(_)
ReprItems(items) ==
    IF items = <<>> THEN <<>>
    ELSE Repr(Head(items))
         \o (IF Tail(items) = <<>> THEN <<>> ELSE <<",", " ">> \o ReprItems(Tail(items)))

ReprKey(v, key) ==
    ReprStr(IF key = "tag" THEN <<"t", "a", "g">> ELSE <<"n", "a", "m", "e">>)
    \o <<":", " ">> \o ReprStr(IF key = "tag" THEN v.tag ELSE v.name)

Repr(v) ==
    IF v.kind = "none" THEN <<"N", "o", "n", "e">>
    ELSE IF v.kind = "str" THEN ReprStr(v.s)
    ELSE IF v.kind = "list" THEN <<"[">> \o ReprItems(v.items) \o <<"]">>
    ELSE <<"{">> \o ReprKey(v, v.keys[1])
         \o (IF Len(v.keys) > 1 THEN <<",", " ">> \o ReprKey(v, v.keys[2]) ELSE <<>>)
         \o <<"}">>

\* str(v) of a value of nfo_data (lines 478, 988 and the f-strings of the
\* skip entries)
PyStr(v) == IF v.kind = "str" THEN v.s ELSE Repr(v)

\* not value, for a value of nfo_data
Falsy(v) ==
    \/ v.kind = "none"
    \/ v.kind = "str" /\ v.s = <<>>
    \/ v.kind = "list" /\ v.items = <<>>

\* dict.get(key) on the list of (key, value) entries; None when missing
Get(data, key) ==
    IF \E i \in 1..Len(data) : data[i].key = key
    THEN data[CHOOSE i \in 1..Len(data) : data[i].key = key].value
    ELSE VNone

HasKey(data, key) == \E i \in 1..Len(data) : data[i].key = key

\* child.tag.lower(), for the tag names of the documents of the model
LowerTag(tag) ==
    CASE tag = "Title" -> "title"
      [] tag = "Genre" -> "genre"
      [] tag = "PLOT" -> "plot"
      [] OTHER -> tag

\* lines 794-804: one more child of the root put into data
PutChild(data, elem) ==
    CHOOSE r \in
      { IF HasKey(data, tag)
        THEN [i \in 1..Len(data) |->
                IF data[i].key # tag THEN data[i]
                ELSE [key |-> tag,
                      value |-> VList((IF data[i].value.kind = "list"
                                       THEN data[i].value.items ELSE <<data[i].value>>)
                                      \o <<element_to_value(elem)>>)]]
        ELSE Append(data, [key |-> tag, value |-> element_to_value(elem)]) :
        tag \in {LowerTag(elem.tag)} } : TRUE

RECURSIVE PutChildren(_, _)
PutChildren(data, elems) ==
    IF elems = <<>> THEN data
    ELSE CHOOSE r \in {PutChildren(d, Tail(elems)) : d \in {PutChild(data, Head(elems))}} : TRUE

\* parse_nfo_to_dict (lines 755-812).  The result is the dictionary as its
\* list of entries, how the call ended, and data["root_tag"] (line 807), kept
\* apart from the entries: no document of the model has a child of that name,
\* and the planner passes over the key (line 858).
parse_nfo_to_dict(file) ==
    IF ~file.exists THEN [end |-> "return", data |-> <<>>, root_tag |-> ""]
    ELSE IF ~file.wellformed THEN [end |-> "ParseError", data |-> <<>>, root_tag |-> ""]
    ELSE CHOOSE r \in
           { [end |-> "return",
              data |-> d \o (IF HasKey(d, "title") THEN <<>>
                           ELSE <<[key |-> "title", value |-> VStr(<<>>)]>>),
              root_tag |-> LowerTag(file.root_tag)] :
             d \in {PutChildren(<<>>, file.elems)} } : TRUE

\* get_media_type_from_nfo (lines 815-833)
get_media_type_from_nfo(root_tag) ==
    IF root_tag \in {"movie", "moviedetail", "moviedetails"} THEN "movie"
    ELSE IF root_tag \in {"show", "showdetail", "showdetails", "tvshow", "serie", "tvserie"}
         THEN "show"
    ELSE IF root_tag \in {"season", "seasondetail", "seasondetails"} THEN "season"
    ELSE IF root_tag \in {"episode", "episodedetail", "episodedetails"} THEN "episode"
    ELSE ""

(***************************************************************************)
(* SUPPORTED_FIELD_MAP (lines 135-162).                                    *)
(***************************************************************************)
Field(rest, is_tag) == [rest_field |-> rest, is_tag |-> is_tag]

SUPPORTED_FIELD_MAP ==
    [k \in {"title", "originaltitle", "plot", "summary", "overview", "studio", "premiered",
            "year", "mpaa", "contentrating", "rating", "genres", "genre", "country",
            "countries", "directors", "director", "writers", "writer", "actors", "actor"} |->
       CASE k = "title" -> Field("title", FALSE)
         [] k = "originaltitle" -> Field("originalTitle", FALSE)
         [] k \in {"plot", "summary", "overview"} -> Field("summary", FALSE)
         [] k = "studio" -> Field("studio", FALSE)
         [] k = "premiered" -> Field("originallyAvailableAt", FALSE)
         [] k = "year" -> Field("year", FALSE)
         [] k \in {"mpaa", "contentrating"} -> Field("contentRating", FALSE)
         [] k = "rating" -> Field("rating", FALSE)
         [] k \in {"genres", "genre"} -> Field("genres", TRUE)
         [] k \in {"country", "countries"} -> Field("countries", TRUE)
         [] k \in {"directors", "director"} -> Field("directors", TRUE)
         [] k \in {"writers", "writer"} -> Field("writers", TRUE)
         [] k \in {"actors", "actor"} -> Field("actors", TRUE)]

(***************************************************************************)
(* Attributes of a catalog item as update_plex_item_fields reads them.     *)
(* item.fields and item.tags hold the attributes the item type exposes;    *)
(* item.other_attrs names further attributes that exist on the object.     *)
(***************************************************************************)
HasAttr(item, name) ==
    \/ name \in {"title", "year"}
    \/ name \in DOMAIN item.fields
    \/ name \in DOMAIN item.tags
    \/ name \in item.other_attrs

\* str(getattr(plex_item, rest_field, "") or "")
CurrentRaw(item, rest_field) ==
    IF rest_field = "title" THEN item.title
    ELSE IF rest_field = "year" THEN (IF Truthy(item.year) THEN Str(item.year) ELSE <<>>)
    ELSE IF rest_field \in DOMAIN item.fields THEN item.fields[rest_field]
    ELSE <<>>

\* getattr(plex_item, rest_field, []) or [], as the tag names of its entries
CurrentTags(item, rest_field) ==
    IF rest_field \in DOMAIN item.tags THEN item.tags[rest_field] ELSE <<>>

\* plex_item.isLocked(field) under try/except (lines 999-1002, 1288-1293)
IsLockedOrFalse(item, field) == field \in item.locked /\ field \notin item.lock_error

(***************************************************************************)
(* The planner of update_plex_item_fields (lines 857-1014).                *)
(***************************************************************************)
Separators == {",", "/", "|", ";"}

\* re.split(r'[,/|;]+', s), without the empty parts add_tag drops anyway
RECURSIVE SplitFrom(_, _, _)
SplitFrom(s, i, part) ==
    IF i > Len(s) THEN (IF part = <<>> THEN <<>> ELSE <<part>>)
    ELSE IF s[i] \in Separators
         THEN (IF part = <<>> THEN <<>> ELSE <<part>>) \o SplitFrom(s, i + 1, <<>>)
         ELSE SplitFrom(s, i + 1, Append(part, s[i]))

SplitTags(s) == SplitFrom(s, 1, <<>>)

\* add_tag over a list of names (lines 873-881)
CleanNames(names) ==
    SelectSeq([i \in 1..Len(names) |-> Strip(names[i])], LAMBDA n : n # <<>>)

\* the name of a dictionary entry: .get("tag") or .get("name")
DictName(v) == IF v.tag # <<>> THEN v.tag ELSE v.name

\* the names one string, dictionary or other value contributes
NamesOfItem(v) ==
    IF v.kind = "str" THEN CleanNames(SplitTags(v.s))
    ELSE IF v.kind = "dict" THEN CleanNames(<<DictName(v)>>)
    ELSE <<>>

RECURSIVE NamesOfItems(_)
NamesOfItems(items) ==
    IF items = <<>> THEN <<>> ELSE NamesOfItem(Head(items)) \o NamesOfItems(Tail(items))

\* lines 871-907: tag_names for a value
TagNames(v) == IF v.kind = "list" THEN NamesOfItems(v.items) ELSE NamesOfItem(v)

\* lines 909-923 and 948-957: drop later duplicates ignoring case
Dedup(tags) ==
    SelectSeq([i \in 1..Len(tags) |->
                 IF \E j \in 1..(i - 1) : Lower(tags[j]) = Lower(tags[i]) THEN <<>> ELSE tags[i]],
              LAMBDA t : t # <<>>)

\* Refine keeping the combined tags
Refine_KeepCombined(tags) ==
    tags

\* lines 963-972: drop tags that still hold a separator
Refine(tags) == SelectSeq(tags, LAMBDA t : ~\E i \in 1..Len(t) : t[i] \in Separators)

\* lines 928-959: the current tags of the item, stripped and deduplicated
ExistingTags(item, rest_field) == Dedup(CleanNames(CurrentTags(item, rest_field)))

FieldOp(rest, value, old) ==
    [type |-> "field", rest_field |-> rest, value |-> value, old_value |-> old,
     new |-> <<>>, existing |-> <<>>]
TagOp(rest, new, existing) ==
    [type |-> "tag", rest_field |-> rest, value |-> <<>>, old_value |-> <<>>,
     new |-> new, existing |-> existing]

\* lines 870-982: the ops one tag entry of nfo_data adds to planned_ops
PlanTag(item, rest_field, v) ==
    CHOOSE r \in
      { IF refined = <<>> THEN <<>>
        ELSE <<TagOp(rest_field, refined, ExistingTags(item, rest_field))>> :
        refined \in {Refine(Dedup(TagNames(v)))} } : TRUE

\* PlanField without the lock check of lines 998-1007
PlanField_IgnoreLock(item, rest_field, v, ALLOW_UNLOCK) ==
    CHOOSE r \in
      { IF new_value = current_value THEN <<>>
        ELSE <<FieldOp(rest_field, new_value, current_value)>> :
        <<new_value, current_value>> \in
            {<<Strip(PyStr(v)), Strip(CurrentRaw(item, rest_field))>>} } : TRUE

\* lines 985-1014: the ops one scalar entry of nfo_data adds to planned_ops
PlanField(item, rest_field, v, ALLOW_UNLOCK) ==
    CHOOSE r \in
      { IF new_value = current_value THEN <<>>
        ELSE IF IsLockedOrFalse(item, rest_field) /\ ~ALLOW_UNLOCK THEN <<>>
        ELSE <<FieldOp(rest_field, new_value, current_value)>> :
        <<new_value, current_value>> \in
            {<<Strip(PyStr(v)), Strip(CurrentRaw(item, rest_field))>>} } : TRUE

\* lines 857-868: one iteration of the loop over nfo_data
PlanEntry(item, entry, ALLOW_UNLOCK) ==
    IF entry.key \notin DOMAIN SUPPORTED_FIELD_MAP THEN <<>>
    ELSE IF Falsy(entry.value) THEN <<>>
    ELSE IF SUPPORTED_FIELD_MAP[entry.key].is_tag
         THEN PlanTag(item, SUPPORTED_FIELD_MAP[entry.key].rest_field, entry.value)
         ELSE PlanField(item, SUPPORTED_FIELD_MAP[entry.key].rest_field, entry.value,
                        ALLOW_UNLOCK)

RECURSIVE PlannedOps(_, _, _)
PlannedOps(item, nfo_data, ALLOW_UNLOCK) ==
    IF nfo_data = <<>> THEN <<>>
    ELSE PlanEntry(item, Head(nfo_data), ALLOW_UNLOCK)
         \o PlannedOps(item, Tail(nfo_data), ALLOW_UNLOCK)

(***************************************************************************)
(* The validation pass (lines 1021-1055).                                  *)
(***************************************************************************)
\* rest.rstrip('s') for the tag collection names
RStripS(rest) ==
    CASE rest = "genres" -> "genre"
      [] rest = "countries" -> "countrie"
      [] rest = "directors" -> "director"
      [] rest = "writers" -> "writer"
      [] rest = "actors" -> "actor"
      [] OTHER -> rest

Supported(item, op) ==
    IF op.type = "field" THEN HasAttr(item, op.rest_field)
    ELSE HasAttr(item, op.rest_field) \/ HasAttr(item, RStripS(op.rest_field))

ValidatedOps(item, planned_ops) == SelectSeq(planned_ops, LAMBDA op : Supported(item, op))

\* the records appended to STATS["skipped_missing_field"]
MissingFieldSkips(item, planned_ops) ==
    LET dropped == SelectSeq(planned_ops, LAMBDA op : ~Supported(item, op))
    IN  [i \in 1..Len(dropped) |->
           Outcome(item.title, 0,
                   IF dropped[i].type = "field" THEN "Missing field"
                   ELSE "Missing tag collection", dropped[i].rest_field)]
(***************************************************************************)
(* Requests to the catalog service.  Every call that asks the service to   *)
(* change something is logged in requests, in the order of the calls.      *)
(***************************************************************************)
Req(op, item, field, value, items, remove, locked) ==
    [op |-> op, item |-> item, field |-> field, value |-> value, items |-> items,
     remove |-> remove, locked |-> locked]

\* line 1108
MAX_TAG_BATCH == 5

\* Chunks sending a non-empty list in one piece
Chunks_Whole(list) == IF list = <<>> THEN <<>> ELSE <<list>>

\* lines 1131-1137, 1140-1146, 1155-1161: list[i:i+MAX_TAG_BATCH] for
\* i in range(0, len(list), MAX_TAG_BATCH)
Chunks(list) ==
    [k \in 1..((Len(list) + MAX_TAG_BATCH - 1) \div MAX_TAG_BATCH) |->
       SubSeq(list, (k - 1) * MAX_TAG_BATCH + 1, Min({k * MAX_TAG_BATCH, Len(list)}))]

\* one editTags call per chunk
TagRequests(rk, rest_field, tags, remove) ==
    CHOOSE r \in
      { [k \in 1..Len(chunks) |->
           Req("editTags", rk, rest_field, <<>>, chunks[k], remove, TRUE)] :
        chunks \in {Chunks(tags)} } : TRUE

\* TagsToAdd without the comparison with the existing tags
TagsToAdd_All(op) == op.new

\* line 1152
TagsToAdd(op) ==
    SelectSeq(op.new, LAMBDA t : ~\E i \in 1..Len(op.existing) :
                                     Lower(op.existing[i]) = Lower(t))

\* lines 1110-1165: the calls one planned op makes
OpRequests(rk, op, ALLOW_UNLOCK) ==
    IF op.type = "field"
    THEN <<Req("editField", rk, op.rest_field, op.value, <<>>, FALSE, ALLOW_UNLOCK)>>
    ELSE IF ALLOW_UNLOCK
    THEN TagRequests(rk, op.rest_field, op.existing, TRUE)
         \o TagRequests(rk, op.rest_field, op.new, FALSE)
    ELSE TagRequests(rk, op.rest_field, TagsToAdd(op), FALSE)

RECURSIVE EditRequests(_, _, _)
EditRequests(rk, ops, ALLOW_UNLOCK) ==
    IF ops = <<>> THEN <<>>
    ELSE OpRequests(rk, Head(ops), ALLOW_UNLOCK)
         \o EditRequests(rk, Tail(ops), ALLOW_UNLOCK)

\* LiveRequests committing after the first op of the plan
LiveRequests_EarlyCommit(rk, ops, ALLOW_UNLOCK) ==
    <<Req("batchEdits", rk, "", <<>>, <<>>, FALSE, FALSE)>>
    \o EditRequests(rk, <<Head(ops)>>, ALLOW_UNLOCK)
    \o <<Req("saveEdits", rk, "", <<>>, <<>>, FALSE, FALSE)>>
    \o EditRequests(rk, Tail(ops), ALLOW_UNLOCK)

\* lines 1105-1170: batchEdits, the edits of the plan in order, saveEdits
LiveRequests(rk, ops, ALLOW_UNLOCK) ==
    <<Req("batchEdits", rk, "", <<>>, <<>>, FALSE, FALSE)>>
    \o EditRequests(rk, ops, ALLOW_UNLOCK)
    \o <<Req("saveEdits", rk, "", <<>>, <<>>, FALSE, FALSE)>>

(***************************************************************************)
(* The catalog service's side of the requests (the contract of the         *)
(* external service): what a committed edit does to the item it holds.     *)
(* An upload and a refresh are requests too (they are logged in requests); *)
(* they leave the attributes this model keeps of an item as they were.     *)
(***************************************************************************)
\* int(s) for a string of digits (the digits of the literals of lines 1397
\* and 1407-1408; the service reads a year the same way)
RECURSIVE ParseInt(_)
ParseInt(s) ==
    IF s = <<>> THEN 0 ELSE 10 * ParseInt(SubSeq(s, 1, Len(s) - 1)) + DigitVal(s[Len(s)])

AllDigits(s) == s # <<>> /\ \A i \in 1..Len(s) : IsDigit(s[i])

ServiceLock(item, field, locked) ==
    [item EXCEPT !.locked = IF locked THEN @ \cup {field} ELSE @ \ {field}]

ServiceEdit(item, req) ==
    IF req.op = "editField"
    THEN ServiceLock(IF req.field = "title" THEN [item EXCEPT !.title = req.value]
                     ELSE IF req.field = "year"
                          THEN (IF AllDigits(req.value)
                                THEN [item EXCEPT !.year = ParseInt(req.value)] ELSE item)
                     ELSE IF req.field \in DOMAIN item.fields
                          THEN [item EXCEPT !.fields[req.field] = req.value]
                     ELSE item,
                     req.field, req.locked)
    ELSE IF req.op = "editTags" /\ req.field \in DOMAIN item.tags
    THEN ServiceLock([item EXCEPT !.tags[req.field] =
                        IF req.remove
                        THEN SelectSeq(item.tags[req.field],
                                       LAMBDA t : ~\E i \in 1..Len(req.items) :
                                                      req.items[i] = t)
                        ELSE item.tags[req.field]
                             \o SelectSeq(req.items,
                                          LAMBDA t : ~\E i \in 1..Len(item.tags[req.field]) :
                                                         item.tags[req.field][i] = t)],
                     req.field, req.locked)
    ELSE IF req.op = "edit" THEN ServiceLock(item, req.field, FALSE)
    ELSE item

RECURSIVE ServiceEdits(_, _)
ServiceEdits(item, reqs) ==
    IF reqs = <<>> THEN item
    ELSE CHOOSE r \in {ServiceEdits(i, Tail(reqs)) : i \in {ServiceEdit(item, Head(reqs))}} : TRUE

\* the catalog after the service applied reqs to item rk
ServiceApply(P, rk, reqs) == [P EXCEPT !.items[rk] = ServiceEdits(@, reqs)]
(***************************************************************************)
(* The running update.  m.P is the catalog as the service holds it, m.obj  *)
(* the item object the program holds (refreshed by reload), m.stats the    *)
(* outcome lists, m.reqs the requests made so far.  A service call may     *)
(* raise, so an operation yields the set of its possible results.          *)
(***************************************************************************)
Record(m, list, outcome) == [m EXCEPT !.stats[list] = Append(@, outcome)]
Log(m, req) == [m EXCEPT !.reqs = Append(@, req)]
Reloaded(m) == [m EXCEPT !.obj = m.P.items[m.obj.ratingKey]]
Served(m, reqs) == [m EXCEPT !.P = ServiceApply(@, m.obj.ratingKey, reqs)]

(***************************************************************************)
(* update_plex_item_artwork (lines 1199-1334).  A sidecar file has a stem  *)
(* and the set of extensions for which a sibling "stem.ext" exists.        *)
(***************************************************************************)
\* line 82
ALLOW_ART_EXT == {"mp3", "m4a", "jpg", "jpeg", "png", "tbn"}

\* lines 1217-1224, in the order of the dictionary
artwork_map ==
    << [keyword |-> <<"p","o","s","t","e","r">>, method |-> "uploadPoster", lock_field |-> "thumb"],
       [keyword |-> <<"f","a","n","a","r","t">>, method |-> "uploadArt", lock_field |-> "art"],
       [keyword |-> <<"b","a","c","k","d","r","o","p">>, method |-> "uploadArt", lock_field |-> "art"],
       [keyword |-> <<"b","a","c","k","g","r","o","u","n","d">>, method |-> "uploadArt",
        lock_field |-> "art"],
       [keyword |-> <<"a","r","t">>, method |-> "uploadArt", lock_field |-> "art"],
       [keyword |-> <<"t","h","e","m","e">>, method |-> "uploadTheme", lock_field |-> "theme"] >>

ArtFile(ext, method, lock_field) == [ext |-> ext, method |-> method, lock_field |-> lock_field]

\* Classify taking the last keyword of the map that occurs in the stem
Classify_LastKeyword(base_stem, ext) ==
    CHOOSE r \in
      { IF hits # {}
        THEN ArtFile(ext, artwork_map[Max(hits)].method, artwork_map[Max(hits)].lock_field)
        ELSE IF ext \in {"jpg", "jpeg", "png", "webp"}
             THEN ArtFile(ext, "uploadPoster", "thumb")
             ELSE ArtFile(ext, "", "") :
        hits \in {{k \in 1..Len(artwork_map) :
                     IsSubstr(artwork_map[k].keyword, Lower(base_stem))}} } : TRUE

\* lines 1236-1250; method "" stands for None
Classify(base_stem, ext) ==
    CHOOSE r \in
      { IF hits # {}
        THEN ArtFile(ext, artwork_map[Min(hits)].method, artwork_map[Min(hits)].lock_field)
        ELSE IF ext \in {"jpg", "jpeg", "png", "webp"}
             THEN ArtFile(ext, "uploadPoster", "thumb")
             ELSE ArtFile(ext, "", "") :
        hits \in {{k \in 1..Len(artwork_map) :
                     IsSubstr(artwork_map[k].keyword, Lower(base_stem))}} } : TRUE

\* the orders in which the loop of line 1231 may meet the existing siblings
\* (allowed_exts is a set: its iteration order is not fixed)
Orders(exts) ==
    {q \in SeqsUpTo(exts, Cardinality(exts)) : Len(q) = Cardinality(exts) /\ NoRepeat(q)}

\* lines 1231-1259: found_files, for one iteration order
FoundFiles(file, order) ==
    SelectSeq([i \in 1..Len(order) |-> Classify(file.stem, order[i])],
              LAMBDA f : f.method # "")

\* lines 1314-1334: upload_fn(filepath=fullpath), then plex_item.refresh()
\* and plex_item.reload()
Upload(m, conf, file, f, item_title) ==
    IF conf.DRY_RUN THEN {m}
    ELSE UNION
      { { \* the upload raised (lines 1331-1334)
          Record(l, "failed", Outcome(item_title, file, "Artwork upload failed", f.ext)) }
        \cup UNION
          { { \* refresh or reload raised (lines 1328-1329)
              r,
              Reloaded(r) } :
            r \in {Log(Record(l, "updated", Outcome(item_title, file, "Uploaded", f.ext)),
                       Req("refresh", m.obj.ratingKey, "", <<>>, <<>>, FALSE, FALSE))} } :
        l \in {Log(m, Req(f.method, m.obj.ratingKey, f.ext, <<>>, <<>>, FALSE, FALSE))} }

\* Unlock going on to the upload after an unlock error
Unlock_UploadAfterError(m, conf, file, f, item_title) ==
    UNION
      { Upload(Record(l, "failed", Outcome(item_title, file, "Unlock failed", f.ext)),
               conf, file, f, item_title)
        \cup Upload(Reloaded(Served(l, <<l.reqs[Len(l.reqs)]>>)), conf, file, f, item_title) :
        l \in {Log(m, Req("edit", m.obj.ratingKey, f.lock_field, <<>>, <<>>, FALSE, FALSE))} }

\* lines 1296-1306: plex_item.edit(**{lock_field.locked: 0}); plex_item.reload()
Unlock(m, conf, file, f, item_title) ==
    UNION
      { { \* edit raised
          Record(l, "failed", Outcome(item_title, file, "Unlock failed", f.ext)),
          \* reload raised
          Record(Served(l, <<l.reqs[Len(l.reqs)]>>), "failed",
                 Outcome(item_title, file, "Unlock failed", f.ext)) }
        \cup Upload(Reloaded(Served(l, <<l.reqs[Len(l.reqs)]>>)), conf, file, f, item_title) :
        l \in {Log(m, Req("edit", m.obj.ratingKey, f.lock_field, <<>>, <<>>, FALSE, FALSE))} }

\* lines 1268-1334: one iteration of the loop over found_files
ArtStep(m, conf, file, f) ==
    IF f.method \notin m.obj.methods
    THEN {Record(m, "skipped", Outcome(m.obj.title, file, "Method not found", f.ext))}
    ELSE IF IsLockedOrFalse(m.obj, f.lock_field)
    THEN IF conf.ALLOW_UNLOCK
         THEN Unlock(m, conf, file, f, m.obj.title)
         ELSE {Record(m, "skipped",
                      Outcome(m.obj.title, file, "Artwork upload skipped, field locked",
                              f.ext))}
    ELSE Upload(m, conf, file, f, m.obj.title)

RECURSIVE ArtLoop(_, _, _, _)
ArtLoop(M, conf, file, found_files) ==
    IF found_files = <<>> THEN M
    ELSE CHOOSE r \in
           { ArtLoop(M2, conf, file, Tail(found_files)) :
             M2 \in {UNION {ArtStep(m, conf, file, Head(found_files)) : m \in M}} } : TRUE

\* file is the id of the sidecar file, F the files by id
update_plex_item_artwork(m, conf, F, file) ==
    IF ~conf.ALLOW_ART_UPDATE THEN {[m EXCEPT !.art_calls = @ + 1]}
    ELSE UNION { ArtLoop({[m EXCEPT !.art_calls = @ + 1]}, conf, file,
                         FoundFiles(F[file], order)) :
                 order \in Orders(F[file].siblings \cap ALLOW_ART_EXT) }
(***************************************************************************)
(* update_plex_item_fields (lines 837-1195).                               *)
(***************************************************************************)
\* the update of item obj as it starts
Machine(P, obj, stats, reqs) ==
    [P |-> P, obj |-> obj, stats |-> stats, reqs |-> reqs, art_calls |-> 0,
     planned |-> <<>>, raised |-> "", edits_applied |-> FALSE, end |-> "return"]

\* the except clause letting the exception out of update_plex_item_fields
Caught_Reraise(m, item_title, raised) ==
    [m EXCEPT !.raised = raised, !.end = "Exception"]

\* lines 1188-1190: the call named raised has raised
Caught(m, item_title, raised) ==
    [Record(m, "failed", Outcome(item_title, 0, "Error while updating.", ""))
       EXCEPT !.raised = raised]

\* lines 1105-1186: the live update; call k of reqs may raise
Live(m, conf, item_title, reqs) ==
    { Caught([m EXCEPT !.reqs = @ \o SubSeq(reqs, 1, k)], item_title, reqs[k].op) :
      k \in 1..Len(reqs) }
    \cup UNION
      { { Reloaded(l), Caught(l, item_title, "reload") } :
        l \in {Record([Served(m, reqs) EXCEPT !.reqs = @ \o reqs, !.edits_applied = TRUE],
                      "updated", Outcome(item_title, 0, "", ""))} }

\* ArtworkAfter calling the artwork matcher whatever edits_applied and the
\* override are
ArtworkAfter_Unconditional(M, conf, F, file) ==
    UNION { update_plex_item_artwork(l, conf, F, file) : l \in M }

\* lines 1192-1195
ArtworkAfter(M, conf, F, file) ==
    UNION { IF l.end = "return" /\ (l.edits_applied \/ conf.ALWAYS_UPDATE_ART)
            THEN update_plex_item_artwork(l, conf, F, file) ELSE {l} : l \in M }

\* lines 1062-1195, for the validated plan m.planned
Execute(m, conf, F, file, item_title) ==
    IF m.planned = <<>>
    THEN UNION { IF conf.ALWAYS_UPDATE_ART
                 THEN update_plex_item_artwork(l, conf, F, file) ELSE {l} :
                 l \in {Record(m, "skipped",
                               Outcome(item_title, 0, "No metadata changes required.", ""))} }
    ELSE IF conf.DRY_RUN
    THEN update_plex_item_artwork(
             Record(m, "skipped", Outcome(item_title, 0, "Dry-run is activated.", "")),
             conf, F, file)
    ELSE ArtworkAfter(Live(m, conf, item_title,
                           LiveRequests(m.obj.ratingKey, m.planned, conf.ALLOW_UNLOCK)),
                      conf, F, file)

\* the possible results of update_plex_item_fields(plex_item, nfo_data, nfo_file)
\* started in m, where m.obj is plex_item
update_plex_item_fields(m, conf, F, file, nfo_data) ==
    UNION
      { Execute([m EXCEPT !.planned = ValidatedOps(m.obj, planned_ops),
                          !.stats.skipped_missing_field =
                              @ \o MissingFieldSkips(m.obj, planned_ops)],
                conf, F, file, m.obj.title) :
        planned_ops \in {PlannedOps(m.obj, nfo_data, conf.ALLOW_UNLOCK)} }
(***************************************************************************)
(* SpecUpdate: one call of update_plex_item_fields on every item, sidecar  *)
(* file and configuration of the input sets, followed by a second run of   *)
(* the planner against the catalog the update left.                        *)
(***************************************************************************)
T_Aliens == <<"A","l","i","e","n","s">>
G_Action == <<"A","c","t","i","o","n">>
G_action == <<"a","c","t","i","o","n">>
G_Drama  == <<"D","r","a","m","a">>
G_Mixed  == <<"A","c","t","i","o","n"," ","/"," ","D","r","a","m","a">>
G_Two    == <<"a","c","t","i","o","n",","," ","S","c","i","-","F","i">>
S_Fox    == <<"F","o","x">>
S_Old    == <<"O","l","d">>
S_New    == <<" ","N","e","w"," ">>
S_Other  == <<"O","t","h","e","r">>
S_Tom    == <<"T","o","m">>
S_1986   == <<"1","9","8","6">>
Stem_Alien == <<"A","l","i","e","n">>
Stem_Theme == <<"T","h","e","m","e","-","p","o","s","t","e","r">>
Stem_AlienTheme == <<"A","l","i","e","n","-","T","h","e","m","e">>
Stem_Fanart == <<"f","a","n","a","r","t">>

\* many tags, to make the executor send more than one chunk
ManyLower == [i \in 1..MaxTags |-> <<LOWER[i]>>]
ManyUpper == [i \in 1..MaxTags |-> <<UPPER[i]>>]

AllMethods == {"uploadPoster", "uploadArt", "uploadTheme"}

\* a catalog item with the attributes the update reads
Item(base, fields, tags, other_attrs, locked, lock_error, methods) ==
    [ratingKey |-> base.ratingKey, title |-> base.title, year |-> base.year,
     type |-> base.type, parentRatingKey |-> base.parentRatingKey,
     grandparentRatingKey |-> base.grandparentRatingKey, key |-> base.key,
     parentTitle |-> base.parentTitle, index |-> base.index,
     fields |-> fields, tags |-> tags, other_attrs |-> other_attrs, locked |-> locked,
     lock_error |-> lock_error, methods |-> methods]

\* a movie: summary, studio, contentRating; genres, directors, actors
Movie(base, genres, locked, lock_error, methods) ==
    Item(base,
         [summary |-> S_Old, studio |-> <<>>, contentRating |-> <<>>],
         [genres |-> genres, directors |-> <<>>, actors |-> <<>>],
         {}, locked, lock_error, methods)

\* an item type without studio and without genres; with_genre: the object
\* has an attribute named "genre"
Bare(base, with_genre) ==
    Item(base, [summary |-> S_Old], [actors |-> <<>>],
         IF with_genre THEN {"genre"} ELSE {}, {}, {}, AllMethods)

UpdateItems ==
    { Movie(SearchItems[1], g, l, {}, AllMethods) :
        g \in {<<>>, <<G_Drama>>, <<G_action>>, ManyUpper},
        l \in {{}, {"studio"}, {"genres"}, {"thumb"}, {"summary", "genres", "thumb", "theme"}} }
    \cup { Movie(SearchItems[1], <<>>, {"thumb"}, {"thumb"}, AllMethods),
           Movie(SearchItems[1], <<>>, {}, {}, {"uploadArt"}),
           Bare(SearchItems[7], FALSE), Bare(SearchItems[7], TRUE) }

\* a sidecar file: the document and the siblings "stem.ext" that exist
File(exists, wellformed, root_tag, elems, stem, siblings) ==
    [exists |-> exists, wellformed |-> wellformed, root_tag |-> root_tag, elems |-> elems,
     stem |-> stem, siblings |-> siblings]

UpdateDocs ==
    << <<Leaf("title", T_Alien), Leaf("genre", G_Mixed), Leaf("studio", S_Fox)>>,
       <<Leaf("Title", T_Alien), Leaf("genre", G_Action), Leaf("Genre", G_Two),
         Leaf("PLOT", S_New), Leaf("summary", S_Other)>>,
       <<Leaf("title", T_Alien), Leaf("studio", <<>>), Leaf("genre", <<",", " ">>)>>,
       <<Leaf("title", T_Aliens), Leaf("year", S_1986), Leaf("genre", G_Drama)>>,
       <<Leaf("title", T_Alien), Node("actor", <<>>, S_Tom)>>
       \o [i \in 1..MaxTags |-> Leaf("genre", ManyLower[i])],
       <<Leaf("title", T_Alien), Leaf("plot", S_New), Leaf("studio", S_Fox)>>,
       <<Leaf("title", T_Alien), Node("actor", <<>>, G_Mixed), Node("actor", <<>>, S_Tom),
         Node("director", <<>>, G_Mixed)>>,
       \* two logical names of one remote field
       <<Leaf("title", T_Alien), Leaf("genre", G_Action), Leaf("genres", G_Drama)>>,
       \* a scalar element repeated, and a scalar element with a child
       <<Leaf("title", T_Alien), Leaf("studio", S_Fox), Leaf("studio", S_Fox),
         Node("plot", <<>>, S_New)>> >>

UpdateSiblings ==
    << [stem |-> Stem_Alien, siblings |-> {}],
       [stem |-> Stem_Alien, siblings |-> {"jpg"}],
       [stem |-> Stem_Theme, siblings |-> {"jpg", "mp3"}],
       [stem |-> Stem_Alien, siblings |-> {"tbn", "png", "nfo"}],
       [stem |-> Stem_AlienTheme, siblings |-> {"mp3"}],
       [stem |-> Stem_Fanart, siblings |-> {"jpg"}] >>

\* the files by id
UpdateFiles ==
    [id \in 1..(Len(UpdateDocs) * Len(UpdateSiblings)) |->
       File(TRUE, TRUE, "movie", UpdateDocs[((id - 1) \div Len(UpdateSiblings)) + 1],
            UpdateSiblings[((id - 1) % Len(UpdateSiblings)) + 1].stem,
            UpdateSiblings[((id - 1) % Len(UpdateSiblings)) + 1].siblings)]

\* the catalog holding the one item under update
CatalogOf(item) ==
    [items |-> (item.ratingKey :> item), order |-> <<>>, hits |-> <<>>,
     search_error |-> FALSE, children_error |-> FALSE]

InitUpdate ==
    /\ cfg \in {Config(TRUE, d, u, a, w) : d, u, a, w \in BOOLEAN}
    /\ plex \in {CatalogOf(item) : item \in UpdateItems}
    /\ cur \in {[item |-> rk, file |-> id,
                 nfo_data |-> parse_nfo_to_dict(UpdateFiles[id]).data] :
                rk \in {1, 7}, id \in DOMAIN UpdateFiles}
    /\ cur.item \in DOMAIN plex.items
    /\ STATS = EmptyStats
    /\ requests = <<>>
    /\ pc = "update"
    /\ results = EmptyResult
    /\ plex_item = cur.item
    /\ prompt = NoPrompt
    /\ env = NoEnv
    /\ query = [media_title |-> <<>>, media_type |-> "", parent |-> 0]
    /\ last = NoLast

\* what the state keeps of a finished update
LastOf(r, before) ==
    [planned |-> r.planned, raised |-> r.raised, edits_applied |-> r.edits_applied,
     art_calls |-> r.art_calls, before |-> before, replanned |-> <<>>]

\* update_plex_item_fields(plex_item, nfo_data, nfo_file)
Update ==
    /\ pc = "update"
    /\ \E r \in update_plex_item_fields(Machine(plex, plex.items[cur.item], STATS, requests),
                                        cfg, UpdateFiles, cur.file, cur.nfo_data) :
         /\ plex' = r.P
         /\ STATS' = r.stats
         /\ requests' = r.reqs
         /\ last' = LastOf(r, plex.items[cur.item])
         /\ pc' = IF r.end = "return" THEN "updated" ELSE r.end
    /\ UNCHANGED <<cfg, query, results, plex_item, prompt, env, cur>>

\* the planner run again on the same record, against the item as the
\* service holds it after the update
Replan ==
    /\ pc = "updated"
    /\ last' = [last EXCEPT !.replanned =
                    PlannedOps(plex.items[cur.item], cur.nfo_data, cfg.ALLOW_UNLOCK)]
    /\ pc' = "replanned"
    /\ UNCHANGED <<cfg, plex, STATS, requests, query, results, plex_item, prompt, env, cur>>

NextUpdate == Update \/ Replan

SpecUpdate == InitUpdate /\ [][NextUpdate]_vars

(***************************************************************************)
(* process_data (lines 1338-1458): locating the item of a sidecar file.    *)
(***************************************************************************)
\* lines 80-81
ROOT_PLEX_SHOW_DIR == {"tv", "serie", "series", "show", "shows", "tvshow", "tvshows"}
ROOT_PLEX_MOVIE_DIR == {"movie", "movies"}

\* lines 1352-1359, for the parts of the lowered path; "" stands for None
parent_media_type(path_parts) ==
    IF path_parts \cap ROOT_PLEX_SHOW_DIR # {} THEN "show"
    ELSE IF path_parts \cap ROOT_PLEX_MOVIE_DIR # {} THEN "movie"
    ELSE ""

\* the object a resolution returned: the parent object itself on a parent
\* self-match (line 571), else a fresh object from the service
ObjectOf(P, r, parent) ==
    IF r.plex_item = 0 THEN NoneItem
    ELSE IF r.results.self_match THEN parent
    ELSE P.items[r.plex_item]

\* int(s) of a string (lines 1397, 1407-1408): blanks around the literal are
\* dropped, a sign may lead, and the digits may be separated by single
\* underscores
IntBody(s) ==
    CHOOSE r \in
      { IF t # <<>> /\ t[1] \in {"+", "-"} THEN Tail(t) ELSE t : t \in {Strip(s)} } : TRUE

IntNegative(s) == \E t \in {Strip(s)} : t # <<>> /\ t[1] = "-"

IsIntLiteral(s) ==
    \E b \in {IntBody(s)} :
      /\ b # <<>>
      /\ IsDigit(b[1]) /\ IsDigit(b[Len(b)])
      /\ \A i \in 1..Len(b) : IsDigit(b[i]) \/ b[i] = "_"
      /\ \A i \in 1..(Len(b) - 1) : ~(b[i] = "_" /\ b[i + 1] = "_")

\* int(v) succeeds: a list or a dictionary raises TypeError
IsInt(v) == v.kind = "str" /\ IsIntLiteral(v.s)

\* int(v), for a value on which it succeeds
IntOf(v) ==
    CHOOSE r \in
      { IF IntNegative(v.s) THEN 0 - n ELSE n :
        n \in {ParseInt(SelectSeq(IntBody(v.s), IsDigit))} } : TRUE

\* a or b, for two values of nfo_data
Or(a, b) == IF Falsy(a) THEN b ELSE a

\* show.season(n): the rating key of season n of the show, 0 when the
\* service raises (no such season, or a failure of the call, which
\* P.lookup_error names)
SeasonAt(P, show, n) ==
    IF P.lookup_error = "season" THEN 0
    ELSE IF \E rk \in DOMAIN P.items :
              /\ P.items[rk].type = "season" /\ P.items[rk].parentRatingKey = show
              /\ P.items[rk].index = n
         THEN CHOOSE rk \in DOMAIN P.items :
                /\ P.items[rk].type = "season" /\ P.items[rk].parentRatingKey = show
                /\ P.items[rk].index = n
         ELSE 0

\* lines 1424-1437: the first episode of the season with index n, 0 when
\* there is none or the enumeration raises
EpisodeByScan(P, season, n) ==
    IF season = 0 \/ P.children_error THEN 0
    ELSE CHOOSE r \in
           { IF \E i \in 1..Len(eps) : P.items[eps[i]].index = n
             THEN eps[Min({i \in 1..Len(eps) : P.items[eps[i]].index = n})]
             ELSE 0 :
             eps \in {EpisodesOf(P, season)} } : TRUE

\* season.episode(n) returns None instead of raising or answering (a service
\* that reports an absent entity by its result)
EpisodeAtReturnsNone(P, season) == season # 0 /\ P.lookup_error = "episode_none"

\* season.episode(n): the episode the service addresses directly, 0 when it
\* raises or returns None
EpisodeAt(P, season, n) ==
    IF season = 0 \/ P.lookup_error \in {"episode", "episode_none"} THEN 0
    ELSE IF \E rk \in DOMAIN P.items :
              /\ P.items[rk].type = "episode" /\ P.items[rk].parentRatingKey = season
              /\ P.items[rk].index = n
         THEN CHOOSE rk \in DOMAIN P.items :
                /\ P.items[rk].type = "episode" /\ P.items[rk].parentRatingKey = season
                /\ P.items[rk].index = n
         ELSE 0

\* lines 1386-1441: the rating key found by direct addressing, 0 for None
DirectLookup(P, parent, media_type, nfo_data) ==
    IF ~(parent.type = "show" /\ media_type \in {"show", "season", "episode"}) THEN 0
    ELSE IF media_type = "show" THEN parent.ratingKey
    ELSE IF media_type = "season"
    THEN CHOOSE r \in
           { IF Falsy(season_num) \/ ~IsInt(season_num) THEN 0
             ELSE SeasonAt(P, parent.ratingKey, IntOf(season_num)) :
             season_num \in {Or(Get(nfo_data, "season"), Get(nfo_data, "seasonnumber"))} } : TRUE
    ELSE CHOOSE r \in
           { IF Falsy(n[1]) \/ Falsy(n[2]) \/ ~IsInt(n[1]) \/ ~IsInt(n[2]) THEN 0
             ELSE CHOOSE e \in
                    { IF direct # 0 THEN direct
                      \* no exception: the except clause of line 1419 is not entered
                      ELSE IF EpisodeAtReturnsNone(P, SeasonAt(P, parent.ratingKey,
                                                               IntOf(n[1])))
                      THEN 0
                      ELSE EpisodeByScan(P, SeasonAt(P, parent.ratingKey, IntOf(n[1])),
                                         IntOf(n[2])) :
                      direct \in {EpisodeAt(P, SeasonAt(P, parent.ratingKey, IntOf(n[1])),
                                            IntOf(n[2]))} } : TRUE :
             n \in {<<Get(nfo_data, "season"),
                      Or(Get(nfo_data, "episode"), Get(nfo_data, "episodenumber"))>>} } : TRUE

\* lines 1386-1445: the item of the sidecar file, by direct addressing or,
\* failing that, by resolve_plex_item below the parent
Locate(P, parent, media_type, nfo_data, nfo_title, automatic_mode, answer) ==
    CHOOSE l \in
      { IF direct # 0
        THEN [plex_item |-> direct, skipped |-> <<>>, shown |-> <<>>, end |-> "return",
              results |-> EmptyResult, direct |-> TRUE,
              obj |-> IF media_type = "show" THEN parent ELSE P.items[direct]]
        ELSE CHOOSE x \in
               { [plex_item |-> r.plex_item, skipped |-> r.skipped, shown |-> r.shown,
                  end |-> r.end, results |-> r.results, direct |-> FALSE,
                  obj |-> ObjectOf(P, r, parent)] :
                 r \in {resolve_plex_item(P, nfo_title, media_type, automatic_mode, parent,
                                          answer)} } : TRUE :
        direct \in {DirectLookup(P, parent, media_type, nfo_data)} } : TRUE
(***************************************************************************)
(* Spec: process_data over the batches of env.  cur is the position of the *)
(* loops: the batch, the file within it, and the resolved parent object.   *)
(***************************************************************************)
T_Nine == <<"N","i","n","e">>
S_1 == <<"1">>
S_01 == <<"0","1">>
S_Plus1 == <<"+","1">>
S_9 == <<"9">>
S_x == <<"x">>

\* the sidecar files by id
Files ==
    << File(TRUE, TRUE, "movie", <<Leaf("title", T_Alien), Leaf("genre", G_Action)>>,
            Stem_Alien, {"jpg"}),
       File(FALSE, TRUE, "movie", <<>>, Stem_Alien, {}),
       File(TRUE, FALSE, "movie", <<>>, Stem_Alien, {}),
       File(TRUE, TRUE, "movie", <<Leaf("studio", S_Fox), Leaf("title", <<>>)>>,
            Stem_Alien, {"jpg"}),
       File(TRUE, TRUE, "tvshow", <<Leaf("title", T_Dune), Leaf("plot", S_New)>>,
            Stem_Theme, {"mp3"}),
       File(TRUE, TRUE, "episodedetails",
            <<Leaf("title", T_Nine), Leaf("season", S_01), Leaf("episode", S_1),
              Leaf("plot", S_New)>>, Stem_Alien, {}),
       File(TRUE, TRUE, "episodedetails",
            <<Leaf("title", T_Alien), Leaf("season", S_1), Leaf("episode", S_9)>>,
            Stem_Alien, {}),
       File(TRUE, TRUE, "season",
            <<Leaf("title", T_Season1), Leaf("seasonnumber", S_x), Leaf("plot", S_New)>>,
            Stem_Alien, {}),
       \* the title element repeated
       File(TRUE, TRUE, "movie",
            <<Leaf("title", T_Alien), Leaf("title", T_Alien), Leaf("genre", G_Action)>>,
            Stem_Alien, {}),
       \* a season number with a sign
       File(TRUE, TRUE, "episodedetails",
            <<Leaf("title", T_Nine), Leaf("season", S_Plus1), Leaf("episode", S_1),
              Leaf("plot", S_New)>>, Stem_Alien, {}) >>

MovieFiles == {1, 2, 3, 4}
ShowFiles == {5, 6, 7, 8}

Batch(title, path_parts, files) == [title |-> title, path_parts |-> path_parts, files |-> files]

\* data, as the list of its (title, info) entries
DataSets ==
    {<<>>}
    \cup {<<Batch(T_Alien, {"media", "movies", "alien"}, fs)>> :
            fs \in {q \in SeqsUpTo(MovieFiles, MaxFiles) : q # <<>>}}
    \cup {<<Batch(T_Dune, {"media", "tv", "dune"}, fs)>> :
            fs \in {q \in SeqsUpTo(ShowFiles, MaxFiles) : q # <<>>}}
    \cup {<<Batch(T_Alien, {"media", "films"}, <<f>>), Batch(T_Dune, {"shows"}, <<5>>)>> :
            f \in MovieFiles}
    \* the file with the title repeated, and the file with the signed season
    \cup {<<Batch(T_Alien, {"media", "movies", "alien"}, fs)>> : fs \in {<<9>>, <<9, 1>>}}
    \cup {<<Batch(T_Dune, {"media", "tv", "dune"}, <<10>>)>>}

Show(base) ==
    Item(base, [summary |-> S_Old, studio |-> <<>>], [genres |-> <<>>], {}, {}, {}, AllMethods)

\* the catalog: item 1 with the locks l, the hits h of a search, and the
\* failing service calls e
Catalog(h, l, e) ==
    [items |-> (1  :> Movie(SearchItems[1], <<>>, l, {}, AllMethods)) @@
               (2  :> Movie(SearchItems[2], <<>>, {}, {}, AllMethods)) @@
               (15 :> Movie(SearchItems[15], <<>>, {}, {}, AllMethods)) @@
               (5  :> Show(SearchItems[5])) @@
               (6  :> Bare(SearchItems[6], FALSE)) @@
               (7  :> Bare(SearchItems[7], FALSE)) @@
               (8  :> Bare(SearchItems[8], FALSE)),
     order |-> <<5, 6, 7>>, hits |-> h, search_error |-> FALSE,
     children_error |-> e = "children", lookup_error |-> IF e = "children" THEN "" ELSE e]

Catalogs ==
    {Catalog(h, {}, "") : h \in {<<5, 1>>, <<1, 2, 5>>, <<15, 5, 7>>}}
    \cup {Catalog(<<5, 1>>, {"thumb", "genres"}, "")}
    \cup {Catalog(<<5, 1>>, {}, e) : e \in {"season", "episode", "episode_none", "children"}}
    \cup {Catalog(<<5, 8>>, {}, "children")}

Init ==
    /\ cfg \in {Config(a, d, u, TRUE, FALSE) : a, d, u \in BOOLEAN}
    /\ plex \in Catalogs
    /\ env \in DataSets
    /\ STATS = EmptyStats
    /\ requests = <<>>
    /\ pc = "data"
    /\ cur = [batch |-> 1, file |-> 0, parent |-> NoneItem]
    /\ results = EmptyResult
    /\ plex_item = 0
    /\ prompt = NoPrompt
    /\ query = [media_title |-> <<>>, media_type |-> "", parent |-> 0]
    /\ last = NoLast

\* lines 1343-1345
NoData ==
    /\ pc = "data"
    /\ env = <<>>
    /\ pc' = "returned"
    /\ UNCHANGED <<cfg, plex, STATS, requests, query, results, plex_item, prompt, env, cur, last>>

\* line 1349: entering the loop over the batches
Start ==
    /\ pc = "data"
    /\ env # <<>>
    /\ pc' = "batch"
    /\ UNCHANGED <<cfg, plex, STATS, requests, query, results, plex_item, prompt, env, cur, last>>

\* the position after the current batch
NextBatch == [batch |-> cur.batch + 1, file |-> 0, parent |-> NoneItem]

\* lines 1349-1368: the parent of the next batch is resolved
ResolveParent ==
    /\ pc = "batch"
    /\ cur.batch <= Len(env)
    /\ \E answer \in 0..(MaxCands + 1) :
         \E r \in {resolve_plex_item(plex, env[cur.batch].title,
                                     parent_media_type(env[cur.batch].path_parts),
                                     cfg.automatic_mode, NoneItem, answer)} :
             /\ r.shown = <<>> => answer = 0
             /\ answer <= Len(r.shown) + 1
             /\ results' = r.results
             /\ plex_item' = r.plex_item
             /\ prompt' = [shown |-> r.shown, answer |-> answer]
             /\ query' = [media_title |-> env[cur.batch].title,
                          media_type |-> parent_media_type(env[cur.batch].path_parts),
                          parent |-> 0]
             /\ STATS' = [STATS EXCEPT !.skipped =
                            @ \o r.skipped
                              \o (IF r.end = "return" /\ r.plex_item = 0
                                  THEN <<Outcome(env[cur.batch].title, 0,
                                                 "Could not resolve parent item in Plex.", "")>>
                                  ELSE <<>>)]
             /\ pc' = IF r.end # "return" THEN r.end
                      ELSE IF r.plex_item = 0 \/ env[cur.batch].files = <<>> THEN "batch"
                      ELSE "file"
             /\ cur' = IF r.end # "return" THEN cur
                       ELSE IF r.plex_item = 0 \/ env[cur.batch].files = <<>> THEN NextBatch
                       ELSE [batch |-> cur.batch, file |-> 1, parent |-> plex.items[r.plex_item]]
    /\ UNCHANGED <<cfg, plex, requests, env, last>>

\* line 1458
Summarize ==
    /\ pc = "batch"
    /\ cur.batch > Len(env)
    /\ pc' = "summarized"
    /\ UNCHANGED <<cfg, plex, STATS, requests, query, results, plex_item, prompt, env, cur, last>>

\* what the state keeps of the last pass of the loop over the files: the
\* file, how the pass went, and the result of the update if one was made
Pass(file, step, r) ==
    [file |-> file, step |-> step, planned |-> r.planned, raised |-> r.raised,
     edits_applied |-> r.edits_applied, art_calls |-> r.art_calls, item |-> r.obj.ratingKey]

NoUpdate == Machine(<<>>, NoneItem, EmptyStats, <<>>)

\* the end of one pass: the loops move on, unless the pass ended the run
EndPass(P, stats, reqs, pass, end, parent) ==
    /\ plex' = P
    /\ STATS' = stats
    /\ requests' = reqs
    /\ last' = pass
    /\ pc' = IF end # "return" THEN end
             ELSE IF cur.file < Len(env[cur.batch].files) THEN "file" ELSE "batch"
    /\ cur' = IF end # "return" THEN cur
              ELSE IF cur.file < Len(env[cur.batch].files)
                   THEN [cur EXCEPT !.file = @ + 1, !.parent = parent]
                   ELSE NextBatch

\* UpdateLocated leaving an unresolved file without its skip record
UpdateLocated_SilentUnresolved(f, nfo, stats, loc, nfo_title) ==
    IF loc.end # "return"
    THEN EndPass(plex, stats, requests, Pass(f, "resolve", NoUpdate), loc.end, cur.parent)
    ELSE IF loc.plex_item = 0
    THEN EndPass(plex, stats, requests, Pass(f, "unresolved", NoUpdate), "return",
                 cur.parent)
    ELSE \E r \in update_plex_item_fields(Machine(plex, loc.obj, stats, requests), cfg,
                                          Files, f, nfo.data) :
           EndPass(r.P, r.stats, r.reqs, Pass(f, "update", r), r.end,
                   \* the parent object itself was updated and reloaded
                   IF loc.plex_item = cur.parent.ratingKey
                      /\ (loc.results.self_match
                          \/ (loc.direct /\ get_media_type_from_nfo(nfo.root_tag) = "show"))
                   THEN r.obj ELSE cur.parent)

\* lines 1447-1455: the located item is updated, or the file skipped
UpdateLocated(f, nfo, stats, loc, nfo_title) ==
    IF loc.end # "return"
    THEN EndPass(plex, stats, requests, Pass(f, "resolve", NoUpdate), loc.end, cur.parent)
    ELSE IF loc.plex_item = 0
    THEN EndPass(plex,
                 [stats EXCEPT !.skipped =
                    Append(@, Outcome(nfo_title, f, "Could not resolve Plex item.", ""))],
                 requests, Pass(f, "unresolved", NoUpdate), "return", cur.parent)
    ELSE \E r \in update_plex_item_fields(Machine(plex, loc.obj, stats, requests), cfg,
                                          Files, f, nfo.data) :
           EndPass(r.P, r.stats, r.reqs, Pass(f, "update", r), r.end,
                   \* the parent object itself was updated and reloaded
                   IF loc.plex_item = cur.parent.ratingKey
                      /\ (loc.results.self_match
                          \/ (loc.direct /\ get_media_type_from_nfo(nfo.root_tag) = "show"))
                   THEN r.obj ELSE cur.parent)

\* lines 1382-1455, for a sidecar record with a title
LocateAndUpdate(f, nfo, stats, nfo_title) ==
    \E answer \in 0..(MaxCands + 1) :
      \E loc \in {Locate(plex, cur.parent, get_media_type_from_nfo(nfo.root_tag), nfo.data,
                         nfo_title, cfg.automatic_mode, answer)} :
        /\ loc.shown = <<>> => answer = 0
        /\ answer <= Len(loc.shown) + 1
        /\ results' = loc.results
        /\ plex_item' = loc.plex_item
        /\ prompt' = [shown |-> loc.shown, answer |-> answer]
        /\ query' = [media_title |-> nfo_title,
                     media_type |-> get_media_type_from_nfo(nfo.root_tag),
                     parent |-> cur.parent.ratingKey]
        /\ UpdateLocated(f, nfo, [stats EXCEPT !.skipped = @ \o loc.skipped], loc, nfo_title)

\* lines 1370-1455: one pass of the loop over the files of the batch
ProcessNfo ==
    /\ pc = "file"
    /\ \E f \in {env[cur.batch].files[cur.file]} :
         \E nfo \in {parse_nfo_to_dict(Files[f])} :
           \E stats \in {[STATS EXCEPT !.processed_nfo = @ + 1]} :
             IF nfo.end # "return"
             THEN /\ EndPass(plex, stats, requests, Pass(f, "parse", NoUpdate), nfo.end,
                             cur.parent)
                  /\ UNCHANGED <<query, results, plex_item, prompt>>
             ELSE IF nfo.data = <<>> \/ Falsy(Get(nfo.data, "title"))
             THEN /\ EndPass(plex,
                             [stats EXCEPT !.skipped =
                                Append(@, Outcome(<<>>, f, "NFO empty or missing title.", ""))],
                             requests, Pass(f, "skip", NoUpdate), "return", cur.parent)
                  /\ UNCHANGED <<query, results, plex_item, prompt>>
             \* nfo_title reaches the search (line 478) and the skip entries
             \* (lines 413-459, 1449) through str()
             ELSE LocateAndUpdate(f, nfo, stats, PyStr(Get(nfo.data, "title")))
    /\ UNCHANGED <<cfg, env>>

Next == NoData \/ Start \/ ResolveParent \/ ProcessNfo \/ Summarize

Spec == Init /\ [][Next]_vars

(***************************************************************************)
(* Properties of the resolution policy and the scorer (SpecSearch).        *)
(***************************************************************************)
ResolveEnded == pc \in {"resolved", "exit", "TypeError"}

\* the title and year the scorer compares with, for the current query
SearchKey == extract_trailing_year(Strip(query.media_title))

\* the scorer went through the candidates (no early return, no parent self-match)
ScoredNormally ==
    /\ pc = "scored"
    /\ ~(query.parent # 0
         /\ _normalize(plex.items[query.parent].title) = _normalize(SearchKey.title)
         /\ (SearchKey.year = NoYear \/ plex.items[query.parent].year = SearchKey.year))

HasNoise(title) == \E k \in noise_keywords : IsSubstr(k, Lower(title))

\* the child test of the scorer, spelled out
CountsAsChild(c, parent) ==
    /\ parent # 0
    /\ \/ c.parentRatingKey = parent
       \/ c.grandparentRatingKey = parent
       \/ IsSubstr(Str(parent), c.key)
       \/ c.parentTitle # <<>>
          /\ _normalize(c.parentTitle) = _normalize(plex.items[parent].title)

\* C4: a confident result with exactly one excellent candidate is resolved to
\* best_match without a prompt in both modes, and automatic mode returns a
\* candidate in no other situation.
C4_SingleExcellentAutoSelected ==
    ResolveEnded =>
      /\ (results.is_confident /\ results.nb_excellent_match = 1) =>
            /\ pc = "resolved"
            /\ plex_item = results.best_match
            /\ plex_item # 0
            /\ prompt.shown = <<>>
      /\ (cfg.automatic_mode /\ plex_item # 0) =>
            (results.is_confident /\ results.nb_excellent_match = 1)

C4_Witness ==
    /\ pc = "resolved" /\ ~cfg.automatic_mode
    /\ results.is_confident /\ results.nb_excellent_match = 1
    /\ Len(results.candidates) > 1
    /\ plex_item = results.best_match /\ plex_item # 0

\* C5: with several excellent candidates automatic mode returns nothing;
\* interactive mode shows exactly the first nb_excellent_match candidates and
\* returns the one picked, or nothing with a recorded skip when the user declines.
C5_MultipleExcellent ==
    (ResolveEnded /\ results.nb_excellent_match > 1) =>
      LET n == results.nb_excellent_match IN
      /\ cfg.automatic_mode =>
            pc = "resolved" /\ plex_item = 0 /\ prompt.shown = <<>>
      /\ ~cfg.automatic_mode =>
            /\ prompt.shown = SubSeq(results.candidates, 1, n)
            /\ \A i \in 1..Len(results.candidates) : results.scores[i] >= 99 <=> i <= n
            /\ (pc = "resolved" /\ prompt.answer \in 1..n) =>
                   plex_item = results.candidates[prompt.answer]
            /\ (pc = "resolved" /\ prompt.answer = n + 1) =>
                   /\ plex_item = 0
                   /\ STATS.skipped =
                        <<Skip(query.media_title, "User did not select any match.")>>
            /\ pc = "resolved" => prompt.answer \in 1..(n + 1)

\* the ranked list holds a third candidate below 99: the user is shown the
\* two excellent ones only, and picks the second
C5_Witness ==
    /\ pc = "resolved" /\ ~cfg.automatic_mode
    /\ Len(results.candidates) = 3
    /\ results.nb_excellent_match = 2
    /\ results.scores[3] < 99
    /\ prompt.shown = SubSeq(results.candidates, 1, 2)
    /\ prompt.answer = 2
    /\ plex_item = results.candidates[2]

\* the same list, and the user declines: the answer after the two shown
C5_DeclineWitness ==
    /\ pc = "resolved" /\ ~cfg.automatic_mode
    /\ Len(results.candidates) = 3
    /\ results.nb_excellent_match = 2
    /\ Len(prompt.shown) = 2
    /\ prompt.answer = 3
    /\ plex_item = 0
    /\ STATS.skipped = <<Skip(query.media_title, "User did not select any match.")>>

\* the same list in automatic mode: nothing is selected
C5_AutoWitness ==
    /\ pc = "resolved" /\ cfg.automatic_mode
    /\ Len(results.candidates) = 3
    /\ results.nb_excellent_match = 2
    /\ plex_item = 0

\* C6: with candidates but none excellent, automatic mode returns nothing and
\* interactive mode shows the whole candidate list and returns the chosen
\* candidate or nothing; the call completes normally in both modes.
C6_NoConfidentMatch ==
    (ResolveEnded /\ results.candidates # <<>> /\ results.nb_excellent_match = 0) =>
      /\ pc # "TypeError"
      /\ cfg.automatic_mode => plex_item = 0
      /\ (~cfg.automatic_mode /\ Len(results.candidates) > 1) =>
            prompt.shown = results.candidates

\* C9 as stated: every candidate with the normalized search title scores 100
\* when its year is the search year and 99 when the query has no year.
C9_ExactMatchScores ==
    pc = "scored" =>
      \A i \in 1..Len(results.candidates) :
        LET c == plex.items[results.candidates[i]] IN
        _normalize(c.title) = _normalize(SearchKey.title) =>
          /\ (SearchKey.year # NoYear /\ c.year = SearchKey.year) => results.scores[i] = 100
          /\ SearchKey.year = NoYear => results.scores[i] = 99

\* C9 amended: a scored candidate with the normalized search title gets 100
\* when the query has a non-zero year equal to its own and 99 when the query
\* has no year, less 50 when its title holds a noise keyword and plus 30 when
\* it counts as a child of the supplied parent; exactly 100 or 99 without both.
C9_ExactMatchScoresAdjusted ==
    ScoredNormally =>
      \A i \in 1..Len(results.candidates) :
        LET c == plex.items[results.candidates[i]]
            y == SearchKey.year
            adj == (IF HasNoise(c.title) THEN -50 ELSE 0)
                   + (IF CountsAsChild(c, query.parent) THEN 30 ELSE 0)
        IN  _normalize(c.title) = _normalize(SearchKey.title) =>
              /\ (y # NoYear /\ y # 0 /\ c.year = y) => results.scores[i] = 100 + adj
              /\ y = NoYear => results.scores[i] = 99 + adj

C9_Witness ==
    /\ ScoredNormally
    /\ SearchKey.year = 1979
    /\ \E i \in 1..Len(results.candidates) :
         /\ plex.items[results.candidates[i]].title = T_Alien
         /\ plex.items[results.candidates[i]].year = 1979
         /\ results.scores[i] = 100
    /\ \E i \in 1..Len(results.candidates) :
         /\ plex.items[results.candidates[i]].title = T_Alien
         /\ plex.items[results.candidates[i]].year = 1986
         /\ results.scores[i] = 99

\* C10 as stated: "Alien 3" against the search title "Alien" scores 20, plus
\* 30 only for a child of the supplied parent.
C10_Alien3Scores20 ==
    (ScoredNormally /\ SearchKey.title = T_Alien) =>
      \A i \in 1..Len(results.candidates) :
        LET c == plex.items[results.candidates[i]] IN
        c.title = T_Alien3 =>
          results.scores[i] = 20 + (IF CountsAsChild(c, query.parent) THEN 30 ELSE 0)

\* C10 amended: "Alien 3" against "Alien" scores 25 (substring 20 plus the
\* prefix bonus 5), plus 30 exactly when it counts as a child of the parent.
C10_Alien3Scores25 ==
    (ScoredNormally /\ SearchKey.title = T_Alien) =>
      \A i \in 1..Len(results.candidates) :
        LET c == plex.items[results.candidates[i]] IN
        c.title = T_Alien3 =>
          results.scores[i] = 25 + (IF CountsAsChild(c, query.parent) THEN 30 ELSE 0)

C10_Witness ==
    /\ ScoredNormally /\ SearchKey.title = T_Alien /\ query.parent = 0
    /\ \E i \in 1..Len(results.candidates) :
         plex.items[results.candidates[i]].title = T_Alien3 /\ results.scores[i] = 25

(***************************************************************************)
(* Properties of update_plex_item_fields and update_plex_item_artwork      *)
(* (SpecUpdate).                                                           *)
(***************************************************************************)
UpdateEnded == pc \in {"updated", "replanned"}

\* the artwork slot an upload method writes
SlotOf(method) ==
    CASE method = "uploadPoster" -> "thumb"
      [] method = "uploadArt" -> "art"
      [] method = "uploadTheme" -> "theme"
      [] OTHER -> ""

\* the field, tag collection or artwork slot a request changes; "" for the
\* requests that open and commit the batch
TargetOf(req) ==
    IF req.op \in {"editField", "editTags", "edit"} THEN req.field ELSE SlotOf(req.op)

\* C1 as stated: in dry-run mode no write of any kind is requested from the
\* catalog service (no field edit, tag edit, commit, upload or unlock edit),
\* whatever the other settings and the locks of the artwork slots, and the
\* artwork matcher is still invoked for an entity with a non-empty plan.
C1_DryRunRequestsNoWrite ==
    cfg.DRY_RUN =>
      /\ requests = <<>>
      /\ (UpdateEnded /\ last.planned # <<>>) => last.art_calls = 1

\* C2 as stated: with unlocking disallowed, no mutation is requested against
\* a target (scalar field, tag field or artwork slot) that the entity
\* reports as locked.
C2_NoMutationOfLockedTarget ==
    (UpdateEnded /\ ~cfg.ALLOW_UNLOCK) =>
      \A i \in 1..Len(requests) :
        ~IsLockedOrFalse(last.before, TargetOf(requests[i]))

\* C3 as stated: once the plan of a record was applied to the catalog, the
\* planner run again on the same record against the resulting state plans no
\* TagOp.
C3_TagPlanningIdempotent ==
    (pc = "replanned" /\ last.edits_applied) =>
      \A i \in 1..Len(last.replanned) : last.replanned[i].type # "tag"

(***************************************************************************)
(* Properties of process_data (Spec).                                      *)
(***************************************************************************)
\* the step is one pass of the loop over the files
IsPass == STATS'.processed_nfo = STATS.processed_nfo + 1

\* the file the next pass reads
CurFile == Files[env[cur.batch].files[cur.file]]

\* the pass went on to the next file, or to the next batch after the last
LoopGoesOn ==
    /\ pc' = IF cur.file < Len(env[cur.batch].files) THEN "file" ELSE "batch"
    /\ cur'.batch = IF cur.file < Len(env[cur.batch].files) THEN cur.batch ELSE cur.batch + 1
    /\ cur'.file = IF cur.file < Len(env[cur.batch].files) THEN cur.file + 1 ELSE 0

\* a sidecar file that is missing, unparseable or without a title
Unusable(file) ==
    \/ ~file.exists
    \/ ~file.wellformed
    \/ \A i \in 1..Len(file.elems) :
         LowerTag(file.elems[i].tag) = "title" => Strip(file.elems[i].text) = <<>>

\* C7 as stated: a sidecar file that is missing, unparseable or without a
\* title is recorded as skipped, nothing is requested from the catalog, and
\* the run goes on with the next file or batch.
C7_UnusableSidecarSkipped ==
    [][(pc = "file" /\ IsPass /\ Unusable(CurFile)) =>
         /\ LoopGoesOn
         /\ requests' = requests /\ plex' = plex
         /\ Len(STATS'.skipped) = Len(STATS.skipped) + 1
         /\ STATS'.skipped[Len(STATS'.skipped)].file = env[cur.batch].files[cur.file]]_vars

\* C8: a pass in which a call of the metadata update raised (a field edit, a
\* tag edit, the commit or the reload after it) records the entity as failed
\* and goes on with the next file or batch; the run is not aborted.
C8_UpdateFailureNeverAborts ==
    [][(pc = "file" /\ IsPass /\ last'.step = "update" /\ last'.raised # "") =>
         /\ LoopGoesOn
         /\ Len(STATS'.failed) > Len(STATS.failed)
         /\ \E i \in (Len(STATS.failed) + 1)..Len(STATS'.failed) :
              /\ STATS'.failed[i].why = "Error while updating."
              /\ STATS'.failed[i].title = plex.items[last'.item].title]_vars

\* a run in which the update of the first file failed at the commit, the
\* second file was processed all the same, and the summary was reached
C8_Witness ==
    /\ pc = "summarized"
    /\ STATS.processed_nfo = 2
    /\ \E i \in 1..Len(requests) : requests[i].op = "saveEdits"
    /\ STATS.failed # <<>>
    /\ STATS.failed[1].why = "Error while updating."
    /\ STATS.updated = <<>>
    /\ last.file # env[1].files[1]

(***************************************************************************)
(* Properties of the scorer's result (SpecSearch), continued.              *)
(***************************************************************************)
\* the list the scorer went through, in the order of discovery: the children
\* enumerated below the parent, else the hits of the service
Discovered ==
    LET scoped == ScopedCandidates(plex, query.media_type, ParentOf(plex, query))
    IN  IF scoped # <<>> THEN scoped ELSE PlexSearch(plex, SearchKey.title)

PositionIn(list, x) == CHOOSE i \in 1..Len(list) : list[i] = x

\* C11: the candidates of every ScoreResult are in descending order of score,
\* candidates of equal score are in their order of discovery, and best_match
\* is the first candidate.
C11_SortedStable ==
    pc # "query" =>
      /\ \A i, j \in 1..Len(results.candidates) :
           i < j =>
             \/ results.scores[i] > results.scores[j]
             \/ /\ results.scores[i] = results.scores[j]
                /\ PositionIn(Discovered, results.candidates[i])
                     < PositionIn(Discovered, results.candidates[j])
      /\ results.candidates # <<>> =>
           /\ results.best_match = results.candidates[1]
           /\ results.best_score = results.scores[1]

\* a result whose best candidate was discovered after the second one
C11_Witness ==
    /\ pc = "scored"
    /\ Len(results.candidates) = 2
    /\ results.scores[1] > results.scores[2]
    /\ PositionIn(Discovered, results.candidates[1]) = 2
    /\ results.best_match = results.candidates[1]

\* two candidates of equal score, kept in their order of discovery
C11_TieWitness ==
    /\ pc = "scored"
    /\ Len(results.candidates) = 2
    /\ results.scores[1] = results.scores[2]
    /\ Discovered = results.candidates

(***************************************************************************)
(* Properties of the update of one entity (SpecUpdate), continued.         *)
(***************************************************************************)
IsUpload(req) == req.op \in {"uploadPoster", "uploadArt", "uploadTheme"}

\* the live update raised before its commit completed
LiveFailed == last.planned # <<>> /\ ~cfg.DRY_RUN /\ last.raised # "" /\ ~last.edits_applied

\* C12: update_plex_item_artwork is called (once) for an entity exactly when
\* the validated plan is empty and ALWAYS_UPDATE_ART is set, or the plan is
\* non-empty in dry-run, or the live commit succeeded, or the live update
\* failed and ALWAYS_UPDATE_ART is set; in the other cases it is not called
\* and no upload is requested.
C12_ArtworkInvokedExactlyWhen ==
    UpdateEnded =>
      LET invoked == \/ last.planned = <<>> /\ cfg.ALWAYS_UPDATE_ART
                     \/ last.planned # <<>> /\ cfg.DRY_RUN
                     \/ last.planned # <<>> /\ ~cfg.DRY_RUN /\ last.edits_applied
                     \/ LiveFailed /\ cfg.ALWAYS_UPDATE_ART
      IN  /\ last.art_calls = (IF invoked THEN 1 ELSE 0)
          /\ ((last.planned = <<>> \/ LiveFailed) /\ ~cfg.ALWAYS_UPDATE_ART) =>
               /\ last.art_calls = 0
               /\ \A i \in 1..Len(requests) : ~IsUpload(requests[i])

\* a live update that failed at the commit, after which the override made
\* the artwork matcher upload a file
C12_Witness ==
    /\ UpdateEnded
    /\ LiveFailed /\ last.raised = "saveEdits"
    /\ cfg.ALWAYS_UPDATE_ART
    /\ last.art_calls = 1
    /\ \E i \in 1..Len(requests) : IsUpload(requests[i])

\* the scalar entries of the sidecar record whose value differs from the
\* value the entity had: the rest field and the stripped new value of each
DifferingScalars ==
    { [rest_field |-> SUPPORTED_FIELD_MAP[e.key].rest_field, value |-> Strip(PyStr(e.value))] :
      e \in { cur.nfo_data[i] : i \in
                { k \in 1..Len(cur.nfo_data) :
                    /\ cur.nfo_data[k].key \in DOMAIN SUPPORTED_FIELD_MAP
                    /\ ~SUPPORTED_FIELD_MAP[cur.nfo_data[k].key].is_tag
                    /\ ~Falsy(cur.nfo_data[k].value)
                    /\ Strip(PyStr(cur.nfo_data[k].value))
                         # Strip(CurrentRaw(last.before,
                                            SUPPORTED_FIELD_MAP[cur.nfo_data[k].key].rest_field)) } } }

PlansField(rest_field) ==
    \E i \in 1..Len(last.planned) :
      last.planned[i].type = "field" /\ last.planned[i].rest_field = rest_field

\* C13: with unlocking disallowed, a scalar field the entity reports as locked
\* gets no FieldOp although the sidecar value differs, and every other
\* differing scalar field of the record that is unlocked and exposed by the
\* entity has its FieldOp, with the sidecar value, in the same plan.
C13_LockedScalarDropped ==
    (UpdateEnded /\ ~cfg.ALLOW_UNLOCK) =>
      \A d \in DifferingScalars :
        /\ IsLockedOrFalse(last.before, d.rest_field) => ~PlansField(d.rest_field)
        /\ (~IsLockedOrFalse(last.before, d.rest_field)
            /\ HasAttr(last.before, d.rest_field)) =>
             \E i \in 1..Len(last.planned) :
               /\ last.planned[i].type = "field"
               /\ last.planned[i].rest_field = d.rest_field
               /\ last.planned[i].value = d.value

\* the summary is locked and differs, the studio is unlocked and differs:
\* the plan holds the FieldOp of the studio and none for the summary
C13_Witness ==
    /\ UpdateEnded /\ ~cfg.ALLOW_UNLOCK
    /\ IsLockedOrFalse(last.before, "summary")
    /\ \E d \in DifferingScalars : d.rest_field = "summary"
    /\ \E d \in DifferingScalars : d.rest_field = "studio"
    /\ PlansField("studio") /\ ~PlansField("summary")

\* the position of the first element of the sequence low equal to l (0: none)
FirstPos(low, l) ==
    IF \E k \in 1..Len(low) : low[k] = l
    THEN Min({k \in 1..Len(low) : low[k] = l}) ELSE 0

HasSeparator(t) == \E i \in 1..Len(t) : t[i] \in {",", "/", "|", ";"}

\* new_tags is a selection of the names toks of the sidecar input: without
\* duplicates ignoring case, each with the casing of its first occurrence,
\* in the order of the first occurrences
FirstSeen(new_tags, toks) ==
    \E low \in {[k \in 1..Len(toks) |-> Lower(toks[k])]} :
      \E pos \in {[i \in 1..Len(new_tags) |-> FirstPos(low, Lower(new_tags[i]))]} :
        /\ \A i \in 1..Len(new_tags) : pos[i] # 0 /\ toks[pos[i]] = new_tags[i]
        /\ \A i, j \in 1..Len(new_tags) : i < j => pos[i] < pos[j]

\* C14: in every TagOp of the plan, new_tags is not empty, holds no two tags
\* equal ignoring case, keeps for each tag the casing and the relative
\* position of its first occurrence among the names of the sidecar entry it
\* was planned from, and holds no tag with a separator character.
C14_NewTagsDedupedRefined ==
    UpdateEnded =>
      \A n \in 1..Len(last.planned) :
        LET op == last.planned[n] IN
        op.type = "tag" =>
          /\ op.new # <<>>
          /\ \A i \in 1..Len(op.new) : ~HasSeparator(op.new[i])
          /\ \E k \in 1..Len(cur.nfo_data) :
               /\ cur.nfo_data[k].key \in DOMAIN SUPPORTED_FIELD_MAP
               /\ SUPPORTED_FIELD_MAP[cur.nfo_data[k].key].is_tag
               /\ SUPPORTED_FIELD_MAP[cur.nfo_data[k].key].rest_field = op.rest_field
               /\ \E toks \in {TagNames(cur.nfo_data[k].value)} : FirstSeen(op.new, toks)

\* a TagOp planned from an entry holding a combined name and a name repeated
\* in another casing: both are left out
C14_Witness ==
    /\ UpdateEnded
    /\ \E n \in 1..Len(last.planned) :
         /\ last.planned[n].type = "tag"
         /\ last.planned[n].new = <<G_Action, <<"S","c","i","-","F","i">> >>
    /\ \E k \in 1..Len(cur.nfo_data) :
         /\ cur.nfo_data[k].key = "genre"
         /\ Len(TagNames(cur.nfo_data[k].value)) = 3

\* a TagOp planned from two dictionary entries, the first with a combined
\* name: the plan keeps the second only
C14_CombinedWitness ==
    /\ UpdateEnded
    /\ \E n \in 1..Len(last.planned) :
         /\ last.planned[n].type = "tag"
         /\ last.planned[n].rest_field = "actors"
         /\ last.planned[n].new = <<S_Tom>>
    /\ \E k \in 1..Len(cur.nfo_data) :
         /\ cur.nfo_data[k].key = "actor"
         /\ TagNames(cur.nfo_data[k].value) = <<G_Mixed, S_Tom>>

(***************************************************************************)
(* Properties of the scorer and the resolution policy (SpecSearch),        *)
(* continued.                                                              *)
(***************************************************************************)
\* the parent self-match of lines 562-576 answers the query
SelfMatch ==
    /\ query.parent # 0
    /\ _normalize(plex.items[query.parent].title) = _normalize(SearchKey.title)
    /\ (SearchKey.year = NoYear \/ plex.items[query.parent].year = SearchKey.year)

\* the discovered candidates the kind filter keeps
KeptCandidates ==
    SelectSeq(Discovered, LAMBDA rk : KeptByType(plex.items[rk], query.media_type))

\* the result is empty and, when the call was a resolution, it ended with a
\* recorded skip and no selection
EmptyAndSkipped ==
    /\ results.candidates = <<>>
    /\ results.best_match = 0
    /\ ~results.is_confident
    /\ pc # "scored" =>
         /\ pc = "resolved"
         /\ plex_item = 0
         /\ Len(STATS.skipped) = 1
         /\ prompt.shown = <<>>

\* C15 as stated: when the search title left by the removal of the trailing
\* year is empty, or no candidate is left by the kind filter, the ScoreResult
\* has no candidates, no best_match and is not confident, and a resolution
\* records a skip and returns no selection in both modes.
C15_NothingToScoreGivesEmptyResult ==
    (pc # "query" /\ (SearchKey.title = <<>> \/ (~SelfMatch /\ KeptCandidates = <<>>))) =>
      EmptyAndSkipped

\* C16 as stated: every score of every ScoreResult, and so the best score, is
\* an integer from 0 to 100, with or without a parent and noise keywords.
C16_ScoresWithin0To100 ==
    pc # "query" =>
      /\ \A i \in 1..Len(results.scores) : results.scores[i] \in 0..100
      /\ results.best_score \in 0..100

\* C16 amended: every score is an integer from 0 to 130; it is at most 100
\* for a candidate that does not count as a child of a supplied parent, and
\* above 100 only by the 30 of the parent bonus.
C16_ScoresWithin0To130 ==
    pc # "query" =>
      /\ results.best_score \in 0..130
      /\ \A i \in 1..Len(results.scores) :
           /\ results.scores[i] \in 0..130
           /\ results.scores[i] > 100 =>
                /\ ~results.self_match
                /\ CountsAsChild(plex.items[results.candidates[i]], query.parent)
                /\ results.scores[i] - 30 \in {99, 100}

\* an episode of the supplied show with the title searched for: 99 + 30
C16_Witness ==
    /\ pc = "scored"
    /\ query.parent = 5
    /\ results.candidates = <<7>>
    /\ results.scores = <<129>>
    /\ results.best_score = 129

\* C17 as stated: with a media kind filter, no candidate of another kind is
\* in the ScoreResult, and neither best_match nor the entity a resolution
\* returns has another kind, with or without a parent.
C17_KindFilterExcludesOtherKinds ==
    (pc # "query" /\ query.media_type # "") =>
      /\ \A i \in 1..Len(results.candidates) :
           plex.items[results.candidates[i]].type = query.media_type
      /\ results.best_match # 0 => plex.items[results.best_match].type = query.media_type
      /\ plex_item # 0 => plex.items[plex_item].type = query.media_type

(***************************************************************************)
(* Properties of the run over the batches (Spec), continued.               *)
(***************************************************************************)
\* the record of the file the next pass reads
CurNfo == parse_nfo_to_dict(CurFile)

\* the next pass reads an episode sidecar with a title, a season number and
\* an episode number, below a resolved show
EpisodePass ==
    /\ pc = "file" /\ IsPass
    /\ cur.parent.type = "show"
    /\ CurFile.exists /\ CurFile.wellformed
    /\ get_media_type_from_nfo(CurNfo.root_tag) = "episode"
    /\ ~Falsy(Get(CurNfo.data, "title"))
    /\ IsInt(Get(CurNfo.data, "season"))
    /\ IsInt(Or(Get(CurNfo.data, "episode"), Get(CurNfo.data, "episodenumber")))

SeasonNum == IntOf(Get(CurNfo.data, "season"))
EpisodeNum == IntOf(Or(Get(CurNfo.data, "episode"), Get(CurNfo.data, "episodenumber")))

\* what each of the two first tiers yields for the file, 0 for nothing (an
\* error of the lookup, or no entity)
DirectTier == EpisodeAt(plex, SeasonAt(plex, cur.parent.ratingKey, SeasonNum), EpisodeNum)
LinearTier == EpisodeByScan(plex, SeasonAt(plex, cur.parent.ratingKey, SeasonNum), EpisodeNum)

\* the pass updated the entity rk without a title-based resolution
TakenFromTier(rk) ==
    /\ plex_item' = rk
    /\ results' = EmptyResult
    /\ last'.step = "update" /\ last'.item = rk
    /\ LoopGoesOn

\* C18 as stated: for an episode sidecar with season and episode numbers
\* below a resolved show, the entity is the one of the first tier that yields
\* one: direct addressing; when that fails by an error or by returning no
\* entity, the scan of the season's episodes by index; then the title-based
\* resolution below the parent.  No error of the two first tiers ends the run.
C18_EpisodeTiersInOrder ==
    [][EpisodePass =>
         IF DirectTier # 0 THEN TakenFromTier(DirectTier)
         ELSE IF LinearTier # 0 THEN TakenFromTier(LinearTier)
         ELSE /\ query' = [media_title |-> PyStr(Get(CurNfo.data, "title")),
                           media_type |-> "episode", parent |-> cur.parent.ratingKey]
              /\ results' = search_plex_for_media_by_title(plex, PyStr(Get(CurNfo.data, "title")),
                                                           "episode", cur.parent)
              /\ pc' \in {"file", "batch", "exit", "TypeError"}]_vars

\* the entity rk is the show or is below it in the catalog
IsShowOrDescendant(rk, show) ==
    \/ rk = show
    \/ plex.items[rk].parentRatingKey = show
    \/ plex.items[rk].grandparentRatingKey = show

\* the next pass reads a season or episode sidecar with a title below a
\* resolved show, and the direct tiers yield nothing for it, so that the
\* title-based resolution is run with the show as parent
TitleResolutionBelowShow ==
    /\ pc = "file" /\ IsPass
    /\ cur.parent.type = "show"
    /\ CurFile.exists /\ CurFile.wellformed
    /\ get_media_type_from_nfo(CurNfo.root_tag) \in {"season", "episode"}
    /\ ~Falsy(Get(CurNfo.data, "title"))
    /\ DirectLookup(plex, cur.parent, get_media_type_from_nfo(CurNfo.root_tag),
                    CurNfo.data) = 0

\* C19 as stated: the title-based resolution of a season or episode sidecar
\* below a resolved show returns nothing, the show itself or a season or
\* episode of that show, also when the enumeration of the show's children
\* fails or is empty; an entity of another show is never selected.
C19_ResolutionStaysBelowParent ==
    [][TitleResolutionBelowShow =>
         /\ plex_item' # 0 => IsShowOrDescendant(plex_item', cur.parent.ratingKey)
         /\ last'.step = "update" => IsShowOrDescendant(last'.item, cur.parent.ratingKey)]_vars

\* the planned ops whose target the item exposes, and those it does not
ExposedOps(item, planned_ops) ==
    SelectSeq(planned_ops, LAMBDA op : HasAttr(item, op.rest_field))

UnexposedOps(item, planned_ops) ==
    SelectSeq(planned_ops, LAMBDA op : ~HasAttr(item, op.rest_field))

\* C20 as stated: no field edit and no tag edit is requested for a field or a
\* tag collection the entity does not expose; the validation removes every
\* op on such a target from the plan, records each removal as a missing-field
\* outcome of its own, and keeps the ops on exposed targets unchanged and in
\* their planned order.
C20_UnexposedTargetsNeverEdited ==
    UpdateEnded =>
      \E raw \in {PlannedOps(last.before, cur.nfo_data, cfg.ALLOW_UNLOCK)} :
        /\ \A i \in 1..Len(requests) :
             requests[i].op \in {"editField", "editTags"}
               => HasAttr(last.before, requests[i].field)
        /\ last.planned = ExposedOps(last.before, raw)
        /\ \E gone \in {UnexposedOps(last.before, raw)} :
             /\ Len(STATS.skipped_missing_field) = Len(gone)
             /\ \A i \in 1..Len(gone) :
                  /\ STATS.skipped_missing_field[i].what = gone[i].rest_field
                  /\ STATS.skipped_missing_field[i].why
                       \in {"Missing field", "Missing tag collection"}
             /\ \A i \in 1..Len(STATS.skipped) :
                  STATS.skipped[i].why \notin {"Missing field", "Missing tag collection"}

\* the (field, tag) pairs of a sequence of tag lists, in order
RECURSIVE TagPairs(_)
TagPairs(lists) ==
    IF lists = <<>> THEN <<>>
    ELSE [i \in 1..Len(Head(lists).items) |->
            [field |-> Head(lists).field, tag |-> Head(lists).items[i],
             remove |-> Head(lists).remove]]
         \o TagPairs(Tail(lists))

\* the tag edit requests of the update, in the order of the calls
TagEditRequests == SelectSeq(requests, LAMBDA r : r.op = "editTags")

\* the TagOps of the validated plan, in plan order
PlannedTagOps == SelectSeq(last.planned, LAMBDA op : op.type = "tag")

\* the tags of new absent, ignoring case, from existing, in the order of new
AbsentIgnoringCase(new, existing) ==
    SelectSeq(new, LAMBDA t : \A i \in 1..Len(existing) : Lower(existing[i]) # Lower(t))

\* the live update went through all its edit requests
AllEditsRequested == UpdateEnded /\ ~cfg.DRY_RUN /\ last.planned # <<>>
                     /\ last.raised \in {"", "saveEdits", "reload"}

\* C21: with unlocking disallowed no tag removal is requested, and the tags
\* the update asks to add are, op by op in plan order, exactly the tags of
\* new_tags absent (ignoring case) from existing_tags, in new_tags order; an op
\* with no such tag issues no tag edit.
C21_AppendOnlyAddsAbsentTags ==
    (UpdateEnded /\ ~cfg.ALLOW_UNLOCK) =>
      /\ \A i \in 1..Len(requests) : requests[i].op = "editTags" => ~requests[i].remove
      /\ \A i \in 1..Len(requests) : requests[i].op = "editTags" => requests[i].items # <<>>
      /\ AllEditsRequested =>
           TagPairs(TagEditRequests)
             = TagPairs([i \in 1..Len(PlannedTagOps) |->
                           [field |-> PlannedTagOps[i].rest_field,
                            items |-> AbsentIgnoringCase(PlannedTagOps[i].new,
                                                         PlannedTagOps[i].existing),
                            remove |-> FALSE]])

\* "Action / Drama" against the existing tag "action": only "Drama" is added
C21_Witness ==
    /\ AllEditsRequested /\ ~cfg.ALLOW_UNLOCK /\ last.edits_applied
    /\ \E i \in 1..Len(last.planned) :
         /\ last.planned[i].type = "tag"
         /\ last.planned[i].existing = <<G_action>>
         /\ last.planned[i].new = <<G_Action, G_Drama>>
    /\ TagEditRequests # <<>>
    /\ \A i \in 1..Len(TagEditRequests) : TagEditRequests[i].items = <<G_Drama>>

\* the tag lists the replace semantics sends for the TagOps of a plan: for
\* each op the existing tags as removals, then the new tags as additions
RECURSIVE ReplaceLists(_)
ReplaceLists(ops) ==
    IF ops = <<>> THEN <<>>
    ELSE << [field |-> Head(ops).rest_field, items |-> Head(ops).existing, remove |-> TRUE],
            [field |-> Head(ops).rest_field, items |-> Head(ops).new, remove |-> FALSE] >>
         \o ReplaceLists(Tail(ops))

Range(seq) == {seq[i] : i \in 1..Len(seq)}

\* C22: with unlocking allowed, a TagOp asks for the removal of every tag of
\* existing_tags and then for the addition of every tag of new_tags, all its
\* removals before its adds, every tag request with the lock flag set; after
\* the commit the tag set of the field equals new_tags.
C22_ReplaceRemovesThenAdds ==
    (UpdateEnded /\ cfg.ALLOW_UNLOCK) =>
      /\ \A i \in 1..Len(requests) : requests[i].op = "editTags" => requests[i].locked
      /\ AllEditsRequested => TagPairs(TagEditRequests) = TagPairs(ReplaceLists(PlannedTagOps))
      /\ (AllEditsRequested /\ last.edits_applied) =>
           \A i \in 1..Len(PlannedTagOps) :
             Range(CurrentTags(plex.items[cur.item], PlannedTagOps[i].rest_field))
               = Range(PlannedTagOps[i].new)

\* the tag lists the append semantics sends for the TagOps of a plan
AppendLists(ops) ==
    [i \in 1..Len(ops) |->
       [field |-> ops[i].rest_field,
        items |-> AbsentIgnoringCase(ops[i].new, ops[i].existing), remove |-> FALSE]]

\* C23: every tag edit request carries between 1 and 5 tags, and the chunks of
\* each tag list sent (existing tags to remove, new tags to add, tags to
\* append), put together in request order, are the list: chunking drops,
\* repeats and reorders nothing.
C23_ChunksCoverListsInOrder ==
    UpdateEnded =>
      /\ \A i \in 1..Len(requests) :
           requests[i].op = "editTags"
             => Len(requests[i].items) >= 1 /\ Len(requests[i].items) <= 5
      /\ AllEditsRequested =>
           TagPairs(TagEditRequests)
             = TagPairs(IF cfg.ALLOW_UNLOCK THEN ReplaceLists(PlannedTagOps)
                        ELSE AppendLists(PlannedTagOps))

\* a list of more than five tags went out as a chunk of five and the rest
C23_Witness ==
    /\ AllEditsRequested
    /\ \E i \in 1..Len(PlannedTagOps) :
         Len(PlannedTagOps[i].new) > 5 \/ Len(PlannedTagOps[i].existing) > 5
    /\ \E k \in 1..(Len(requests) - 1) :
         /\ requests[k].op = "editTags" /\ requests[k + 1].op = "editTags"
         /\ requests[k].field = requests[k + 1].field
         /\ requests[k].remove = requests[k + 1].remove
         /\ Len(requests[k].items) = 5
         /\ Len(requests[k + 1].items) = MaxTags - 5

\* the positions of the requests with operation op
PositionsOf(op) == {i \in 1..Len(requests) : requests[i].op = op}

\* the edit requests of the update (field and tag edits), in order
EditRequestsSent == SelectSeq(requests, LAMBDA r : r.op \in {"editField", "editTags"})

\* the update ran the live path on a non-empty validated plan
LiveUpdate == UpdateEnded /\ ~cfg.DRY_RUN /\ last.planned # <<>>

\* the records of a list made by the metadata update itself (line 1180:
\* the title; line 1190: "<title>: Error while updating."), the records of
\* the artwork files aside
MetadataRecords(list) ==
    SelectSeq(STATS[list], LAMBDA o : o.why \in {"", "Error while updating."})

\* C24: in live mode with a non-empty validated plan the batch scope is
\* opened exactly once and before every field or tag edit request; the commit
\* is issued at most once and only after every op of the plan has been
\* requested in plan order; when a request before the commit raises, the
\* commit is never issued and the entity is not recorded as updated (the
\* records of artwork uploads are not records of the update).
C24_BatchScopeAndCommit ==
    LiveUpdate =>
      /\ \/ Cardinality(PositionsOf("batchEdits")) = 1
         \/ /\ last.raised = "batchEdits"
            /\ EditRequestsSent = <<>>
      /\ \A b \in PositionsOf("batchEdits") :
           \A i \in 1..Len(requests) :
             requests[i].op \in {"editField", "editTags"} => b < i
      /\ Cardinality(PositionsOf("saveEdits")) <= 1
      /\ \A s \in PositionsOf("saveEdits") :
           /\ \A i \in 1..Len(requests) :
                requests[i].op \in {"editField", "editTags"} => i < s
           /\ EditRequestsSent
                = EditRequests(cur.item, last.planned, cfg.ALLOW_UNLOCK)
      /\ last.raised \in {"batchEdits", "editField", "editTags"} =>
           /\ PositionsOf("saveEdits") = {}
           /\ MetadataRecords("updated") = <<>>

\* a plan of two ops or more went through batch scope, edits and commit; and
\* the other case is reachable too: an edit request raised
C24_Witness ==
    /\ LiveUpdate /\ last.edits_applied
    /\ Len(last.planned) >= 2
    /\ Cardinality(PositionsOf("batchEdits")) = 1
    /\ Cardinality(PositionsOf("saveEdits")) = 1
    /\ Len(EditRequestsSent) >= 2
    /\ MetadataRecords("updated") # <<>>

C24_RaisedWitness ==
    /\ LiveUpdate /\ last.raised = "editTags"
    /\ EditRequestsSent # <<>>
    /\ PositionsOf("saveEdits") = {}
    /\ MetadataRecords("failed") # <<>>

\* the extensions of the sibling files of the sidecar the artwork matcher
\* keeps (found_files)
MatchedExts ==
    {e \in UpdateFiles[cur.file].siblings \cap ALLOW_ART_EXT :
       Classify(UpdateFiles[cur.file].stem, e).method # ""}

\* the number of records of a list about the artwork file with extension ext
ArtRecordCount(list, why, ext) ==
    Cardinality({i \in 1..Len(STATS[list]) :
                   /\ STATS[list][i].what = ext /\ STATS[list][i].why = why
                   /\ STATS[list][i].file = cur.file})

\* the positions of the upload requests for the file with extension ext
UploadRequests(ext) ==
    {i \in 1..Len(requests) : requests[i].op \in AllMethods /\ requests[i].field = ext}

\* the artwork matcher ran in this update
ArtworkRan == UpdateEnded /\ last.art_calls = 1 /\ cfg.ALLOW_ART_UPDATE

\* C25: every matched sibling file gets its own attempt, whatever happened
\* to the files before it: it is skipped once (no upload capability, or
\* locked with unlocking disallowed), or failed once (unlock error, with no
\* upload for it, or upload error), or uploaded once.
C25_ArtworkFilesIndependent ==
    ArtworkRan =>
      \A e \in MatchedExts :
        \E sk \in {ArtRecordCount("skipped", "Method not found", e)
                   + ArtRecordCount("skipped", "Artwork upload skipped, field locked", e)} :
        \E uf \in {ArtRecordCount("failed", "Unlock failed", e)} :
        \E af \in {ArtRecordCount("failed", "Artwork upload failed", e)} :
        \E up \in {ArtRecordCount("updated", "Uploaded", e)} :
          /\ Cardinality(UploadRequests(e)) <= 1
          /\ uf > 0 => UploadRequests(e) = {}
          /\ sk > 0 => UploadRequests(e) = {}
          /\ Classify(UpdateFiles[cur.file].stem, e).method \notin last.before.methods
               => sk = 1
          /\ IF cfg.DRY_RUN
             THEN sk + uf <= 1 /\ af = 0 /\ up = 0 /\ UploadRequests(e) = {}
             ELSE /\ sk + uf + af + up = 1
                  /\ af + up = Cardinality(UploadRequests(e))

\* one sibling file failed at its unlock and got no upload, another sibling
\* file of the same sidecar was uploaded
C25_Witness ==
    /\ ArtworkRan /\ ~cfg.DRY_RUN
    /\ \E e1, e2 \in MatchedExts :
         /\ e1 # e2
         /\ ArtRecordCount("failed", "Unlock failed", e1) = 1
         /\ UploadRequests(e1) = {}
         /\ ArtRecordCount("updated", "Uploaded", e2) = 1

\* one sibling file failed at its upload, another was skipped or uploaded
C25_UploadErrorWitness ==
    /\ ArtworkRan /\ ~cfg.DRY_RUN
    /\ \E e1, e2 \in MatchedExts :
         /\ e1 # e2
         /\ ArtRecordCount("failed", "Artwork upload failed", e1) = 1
         /\ ArtRecordCount("updated", "Uploaded", e2) = 1

\* the keywords in their fixed order, with the upload each stands for
KeywordOrder ==
    << <<"poster", "uploadPoster">>, <<"fanart", "uploadArt">>, <<"backdrop", "uploadArt">>,
       <<"background", "uploadArt">>, <<"art", "uploadArt">>, <<"theme", "uploadTheme">> >>

\* the string literal as a sequence of characters, for the six keywords
KeywordChars(w) ==
    CASE w = "poster" -> <<"p","o","s","t","e","r">>
      [] w = "fanart" -> <<"f","a","n","a","r","t">>
      [] w = "backdrop" -> <<"b","a","c","k","d","r","o","p">>
      [] w = "background" -> <<"b","a","c","k","g","r","o","u","n","d">>
      [] w = "art" -> <<"a","r","t">>
      [] w = "theme" -> <<"t","h","e","m","e">>

\* the places in the order of the keywords occurring in the stem (letter
\* case aside)
Occurring(stem) ==
    CHOOSE r \in
      { {k \in 1..Len(KeywordOrder) : IsSubstr(KeywordChars(KeywordOrder[k][1]), low)} :
        low \in {Lower(stem)} } : TRUE

\* the upload the claim gives a sibling file with extension ext of a stem
\* in which the keywords at the places occ occur ("": none)
ClaimedUpload(occ, ext) ==
    IF occ # {}
    THEN KeywordOrder[CHOOSE k \in occ : \A j \in occ : k <= j][2]
    ELSE IF ext \in {"jpg", "jpeg", "png", "webp"} THEN "uploadPoster"
    ELSE ""

\* the records of the outcome lists about the artwork file with extension ext
ArtRecordsOf(ext) ==
    UNION { {<<list, i>> : i \in {k \in 1..Len(STATS[list]) :
                                   /\ STATS[list][k].what = ext
                                   /\ STATS[list][k].file = cur.file}} :
            list \in {"skipped", "failed", "updated"} }

\* C26: an existing sibling file with an allowed extension is handled as the
\* upload of the first keyword, in the order poster, fanart, backdrop,
\* background, art, theme, occurring in the stem; with no keyword an image
\* file is handled as a poster, and a file of another allowed extension is
\* not handled at all.
C26_ClassifiedByFirstKeyword ==
    (ArtworkRan /\ ~cfg.DRY_RUN) =>
      \E occ \in {Occurring(UpdateFiles[cur.file].stem)} :
      \A e \in UpdateFiles[cur.file].siblings \cap ALLOW_ART_EXT :
        \E u \in {ClaimedUpload(occ, e)} :
        \E ups \in {UploadRequests(e)} :
        \E recs \in {ArtRecordsOf(e)} :
          /\ \A i \in ups : requests[i].op = u
          /\ u = "" => ups = {} /\ recs = {}
          /\ u # "" => ups # {} \/ recs # {}
          /\ (u # "" /\ u \notin last.before.methods)
               => ArtRecordCount("skipped", "Method not found", e) = 1

\* "Theme-poster.mp3" went out as a poster, not as a theme
C26_Witness ==
    /\ ArtworkRan /\ ~cfg.DRY_RUN
    /\ UpdateFiles[cur.file].stem = Stem_Theme
    /\ \E i \in UploadRequests("mp3") : requests[i].op = "uploadPoster"

\* "Alien-Theme.mp3" went out as a theme, "fanart.jpg" as art, "Alien.png"
\* as a poster, and "Alien.tbn" was left alone
C26_ThemeWitness ==
    /\ ArtworkRan /\ ~cfg.DRY_RUN
    /\ UpdateFiles[cur.file].stem = Stem_AlienTheme
    /\ \E i \in UploadRequests("mp3") : requests[i].op = "uploadTheme"

C26_ArtWitness ==
    /\ ArtworkRan /\ ~cfg.DRY_RUN
    /\ UpdateFiles[cur.file].stem = Stem_Fanart
    /\ \E i \in UploadRequests("jpg") : requests[i].op = "uploadArt"

C26_FallbackWitness ==
    /\ ArtworkRan /\ ~cfg.DRY_RUN
    /\ UpdateFiles[cur.file].stem = Stem_Alien
    /\ "tbn" \in UpdateFiles[cur.file].siblings
    /\ \E i \in UploadRequests("png") : requests[i].op = "uploadPoster"
    /\ UploadRequests("tbn") = {} /\ ArtRecordsOf("tbn") = {}

\* C27 as stated: the validated plan holds at most one op per remote field,
\* also for a sidecar record with several logical names of one remote field,
\* and at most one planned op per remote field is executed.
C27_OneOpPerRemoteField ==
    UpdateEnded =>
      /\ \A i, j \in 1..Len(last.planned) :
           last.planned[i].rest_field = last.planned[j].rest_field => i = j
      /\ \A i, j \in 1..Len(requests) :
           (/\ requests[i].op = "editField" /\ requests[j].op = "editField"
            /\ requests[i].field = requests[j].field) => i = j

\* C28 as stated: one metadata update never records its entity both as
\* updated and as failed; the updated record is made only when edits, commit
\* and the reload after the commit all went through, the failed record only
\* when no updated record was made.
C28_NeverUpdatedAndFailed ==
    UpdateEnded =>
      /\ ~(MetadataRecords("updated") # <<>> /\ MetadataRecords("failed") # <<>>)
      /\ MetadataRecords("updated") # <<>> => last.raised = ""
      /\ Len(MetadataRecords("updated")) <= 1 /\ Len(MetadataRecords("failed")) <= 1

\* the number of outcome records about sidecar files and their entities: the
\* records of the three lists, the skips of whole batches aside
FileOutcomeCount(stats) ==
    Len(stats.updated) + Len(stats.failed)
    + Len(SelectSeq(stats.skipped,
                    LAMBDA o : o.why # "Could not resolve parent item in Plex."))

\* C29: a sidecar file counted in processed_nfo has got at least one outcome
\* record (updated, skipped or failed) when the loop moves on from it, so that
\* at the summary no counted file is without a record: title-less sidecar,
\* unresolved entity, empty plan, dry-run, committed update or failed update.
C29_EveryCountedFileHasOutcome ==
    /\ [][(pc = "file" /\ pc' \in {"file", "batch"}) =>
            /\ STATS'.processed_nfo = STATS.processed_nfo + 1
            /\ FileOutcomeCount(STATS') > FileOutcomeCount(STATS)]_vars
    /\ [](pc = "summarized" => FileOutcomeCount(STATS) >= STATS.processed_nfo)

\* a run reached the summary after two files, one updated and one skipped
C29_Witness ==
    /\ pc = "summarized"
    /\ STATS.processed_nfo >= 2
    /\ STATS.updated # <<>>
    /\ \E i \in 1..Len(STATS.skipped) :
         STATS.skipped[i].why \in {"NFO empty or missing title.", "Could not resolve Plex item."}

\* the candidates of the result with the search title (normalized) whose
\* year is the search year, and those with another year or none
TitleAndYearMatches ==
    {i \in 1..Len(results.candidates) :
       /\ _normalize(plex.items[results.candidates[i]].title) = _normalize(SearchKey.title)
       /\ plex.items[results.candidates[i]].year = SearchKey.year}

TitleOnlyMatches ==
    {i \in 1..Len(results.candidates) :
       /\ _normalize(plex.items[results.candidates[i]].title) = _normalize(SearchKey.title)
       /\ plex.items[results.candidates[i]].year # SearchKey.year}

\* the query carries a year and the scorer went through the candidates
ScoredWithYear ==
    /\ pc \in {"scored", "resolved", "exit", "TypeError"}
    /\ SearchKey.year # NoYear /\ SearchKey.year # 0
    /\ results.candidates # <<>> /\ ~results.self_match

====
